---- MODULE Spec2Model ----
(***************************************************************************)
(* Personal finance tracker (rikyru/Test_spese): ledger ingestion, rule    *)
(* engine, recurring-expense engine and split report.                      *)
(*                                                                         *)
(* Conventions                                                             *)
(*   - a Python str is a sequence of one-character strings, so that        *)
(*     lower(), replace(), strip(), split() and substring search are       *)
(*     computed and not assumed;                                           *)
(*   - a date is the integer yyyymmdd, so that date order is integer order *)
(*     and calendar arithmetic (relativedelta, timedelta) is computed;     *)
(*   - an amount is an integer number of cents;                            *)
(*   - an optional column (NULL / NaN / None) is <<>> when empty and <<v>> *)
(*     when it holds v.                                                    *)
(***************************************************************************)
EXTENDS Integers, Sequences, FiniteSets, TLC

VARIABLES
    ledger,      \* table transactions, in insertion order
    templates,   \* table recurring_expenses, in insertion order
    today,       \* datetime.date.today()
    created,     \* history: the templates as add_recurring stored them, by id
    projection,  \* last get_projected_recurring on the present store: argument, result
    rules,       \* RulesEngine.rules, the in-memory rule document
    pending,     \* finance_data/pending_transactions.json, the review queue
    tagsIn,      \* argument of the last normalize_tags call
    tagsOut,     \* its result
    report,      \* last split report computed by render_split
    rulesFile,   \* rules.yaml as the file system holds it, line by line
    sessions,    \* the browser sessions of the rule store, each with its RulesEngine
    lastOp       \* the operation that produced this state, with its arguments

vars == <<ledger, templates, today, created, projection, rules, pending,
          tagsIn, tagsOut, report, rulesFile, sessions, lastOp>>

-----------------------------------------------------------------------------
(* Generic helpers                                                         *)

Min(a, b) == IF a <= b THEN a ELSE b

Abs(x) == IF x < 0 THEN -x ELSE x

Range(s) == {s[i] : i \in 1..Len(s)}

RECURSIVE Concat(_)
Concat(ss) == IF ss = <<>> THEN <<>> ELSE Head(ss) \o Concat(Tail(ss))

SeqsUpTo(S, n) == UNION {[1..k -> S] : k \in 0..n}

-----------------------------------------------------------------------------
(* Python str operations on character sequences                            *)

UpperChars == <<"A","B","C","D","E","F","G","H","I","J","K","L","M",
                "N","O","P","Q","R","S","T","U","V","W","X","Y","Z">>
LowerChars == <<"a","b","c","d","e","f","g","h","i","j","k","l","m",
                "n","o","p","q","r","s","t","u","v","w","x","y","z">>

\* str.lower() on one character
LowerChar(c) ==
    IF \E i \in 1..Len(UpperChars) : UpperChars[i] = c
    THEN LowerChars[CHOOSE i \in 1..Len(UpperChars) : UpperChars[i] = c]
    ELSE c

\* str.lower()
Lower(s) == [i \in 1..Len(s) |-> LowerChar(s[i])]

IsLower(s) == Lower(s) = s

\* str.replace(c, '')
RemoveChar(s, c) == SelectSeq(s, LAMBDA x : x # c)

\* str.replace(c, d) for single characters
ReplaceChar(s, c, d) == [i \in 1..Len(s) |-> IF s[i] = c THEN d ELSE s[i]]

\* str.strip()
RECURSIVE LStrip(_)
LStrip(s) == IF s # <<>> /\ Head(s) = " " THEN LStrip(Tail(s)) ELSE s

RECURSIVE RStrip(_)
RStrip(s) ==
    IF s # <<>> /\ s[Len(s)] = " " THEN RStrip(SubSeq(s, 1, Len(s) - 1)) ELSE s

Strip(s) == RStrip(LStrip(s))

\* str.split(): split on runs of whitespace, no empty tokens
RECURSIVE SplitWs(_, _)
SplitWs(s, cur) ==
    IF s = <<>> THEN (IF cur = <<>> THEN <<>> ELSE <<cur>>)
    ELSE IF Head(s) = " "
         THEN (IF cur = <<>> THEN <<>> ELSE <<cur>>) \o SplitWs(Tail(s), <<>>)
         ELSE SplitWs(Tail(s), Append(cur, Head(s)))

Split(s) == SplitWs(s, <<>>)

\* str.split(c): split on every occurrence of c, empty tokens kept
RECURSIVE SplitOnChar(_, _, _)
SplitOnChar(s, c, cur) ==
    IF s = <<>> THEN <<cur>>
    ELSE IF Head(s) = c
         THEN <<cur>> \o SplitOnChar(Tail(s), c, <<>>)
         ELSE SplitOnChar(Tail(s), c, Append(cur, Head(s)))

SplitOn(s, c) == SplitOnChar(s, c, <<>>)

\* sub in s
Contains(s, sub) ==
    \E i \in 1..(Len(s) - Len(sub) + 1) : SubSeq(s, i, i + Len(sub) - 1) = sub

\* s.endswith(suf)
EndsWith(s, suf) ==
    Len(s) >= Len(suf) /\ SubSeq(s, Len(s) - Len(suf) + 1, Len(s)) = suf

\* code point order of the characters that occur in the model
CharOrder == <<" ", "#", "(", ",", "-", ".">> \o
             <<"0","1","2","3","4","5","6","7","8","9">> \o
             UpperChars \o <<"[", "]", "_">> \o LowerChars \o <<"|">>

Code(c) == CHOOSE i \in 1..Len(CharOrder) : CharOrder[i] = c

\* Python's str < str
RECURSIVE StrLess(_, _)
StrLess(a, b) ==
    IF b = <<>> THEN FALSE
    ELSE IF a = <<>> THEN TRUE
    ELSE IF Head(a) = Head(b) THEN StrLess(Tail(a), Tail(b))
    ELSE Code(Head(a)) < Code(Head(b))

\* sorted(list(set(xs))) for a set of strings
RECURSIVE SortedSeq(_)
SortedSeq(S) ==
    IF S = {} THEN <<>>
    ELSE LET m == CHOOSE x \in S : \A y \in S \ {x} : StrLess(x, y)
         IN  <<m>> \o SortedSeq(S \ {m})

IsSortedStr(s) == \A i \in 1..(Len(s) - 1) : StrLess(s[i], s[i + 1])

-----------------------------------------------------------------------------
(* Calendar: datetime.date, dateutil.relativedelta, datetime.timedelta     *)

Y(d) == d \div 10000
M(d) == (d \div 100) % 100
D(d) == d % 100
MkDate(y, m, d) == y * 10000 + m * 100 + d

IsLeap(y) == (y % 4 = 0 /\ y % 100 # 0) \/ y % 400 = 0

DaysInMonth(y, m) ==
    IF m = 2 THEN (IF IsLeap(y) THEN 29 ELSE 28)
    ELSE IF m \in {4, 6, 9, 11} THEN 30 ELSE 31

\* date + relativedelta(months=n): the day is clamped to the end of the month
AddMonths(d, n) ==
    LET t  == (M(d) - 1) + n
        y2 == Y(d) + (t \div 12)
        m2 == (t % 12) + 1
    IN  MkDate(y2, m2, Min(D(d), DaysInMonth(y2, m2)))

\* date + relativedelta(years=n): Feb 29 is clamped to Feb 28
AddYears(d, n) == MkDate(Y(d) + n, M(d), Min(D(d), DaysInMonth(Y(d) + n, M(d))))

NextDay(d) ==
    IF D(d) < DaysInMonth(Y(d), M(d)) THEN d + 1
    ELSE IF M(d) < 12 THEN MkDate(Y(d), M(d) + 1, 1)
    ELSE MkDate(Y(d) + 1, 1, 1)

\* date + timedelta(days=n)
RECURSIVE AddDays(_, _)
AddDays(d, n) == IF n = 0 THEN d ELSE AddDays(NextDay(d), n - 1)

-----------------------------------------------------------------------------
(* Strings of the program and of the modelled inputs                       *)

S_Recurring == <<"R","e","c","u","r","r","i","n","g">>
S_Netflix   == <<"N","e","t","f","l","i","x">>
S_sub       == <<"s","u","b">>
S_manual    == <<"m","a","n","u","a","l","_","e","n","t","r","y">>
S_pdf       == <<"p","d","f","_","i","m","p","o","r","t">>
S_review    == <<"s","c","r","e","e","n","s","h","o","t","_","r","e","v","i","e","w">>
S_dotcsv    == <<".","c","s","v">>

-----------------------------------------------------------------------------
(* Recurring obligation engine: DataManager, table recurring_expenses      *)

\* process_recurring / get_projected_recurring: the if / elif chain on frequency;
\* a frequency that is none of the three leaves the date where it is
AdvanceDate(frequency, d) ==
    CASE frequency = "Monthly" -> AddMonths(d, 1)
      [] frequency = "Yearly"  -> AddYears(d, 1)
      [] frequency = "Weekly"  -> AddDays(d, 7)
      [] OTHER                 -> d

KnownFrequency(f) == f \in {"Weekly", "Monthly", "Yearly"}

\* INSERT INTO recurring_expenses: the id column defaults to uuid(); here the
\* id is the number of the insertion
add_recurring(store, id, name, amount, category, account, frequency, start_date, description, tags, installments, end_date) ==
    Append(store, [id |-> id, name |-> name, amount |-> amount, category |-> category,
                   account |-> account, frequency |-> frequency, next_date |-> start_date,
                   description |-> description, tags |-> tags,
                   remaining_installments |-> installments, end_date |-> end_date])

\* DELETE FROM recurring_expenses WHERE id = ?
delete_recurring(store, rec_id) == SelectSeq(store, LAMBDA t : t.id # rec_id)

\* variant: the new next_date is not written
SetNextDateLost(store, rec_id, nd) == store

\* UPDATE recurring_expenses SET next_date = ? WHERE id = ?
SetNextDate(store, rec_id, nd) ==
    [i \in 1..Len(store) |->
        IF store[i].id = rec_id THEN [store[i] EXCEPT !.next_date = nd] ELSE store[i]]

\* UPDATE recurring_expenses SET remaining_installments = ? WHERE id = ?
SetInstallments(store, rec_id, n) ==
    [i \in 1..Len(store) |->
        IF store[i].id = rec_id THEN [store[i] EXCEPT !.remaining_installments = <<n>>]
        ELSE store[i]]

\* SELECT * FROM recurring_expenses WHERE next_date <= ?
\* variant: every template of the store counts as due
DueTemplatesAll(store, day) == store

DueTemplates(store, day) == SelectSeq(store, LAMBDA t : t.next_date <= day)

\* process_recurring: the 'Recurring' tag is appended when it is not there
RecurringTags(raw_tags) ==
    IF \E i \in 1..Len(raw_tags) : raw_tags[i] = S_Recurring
    THEN raw_tags ELSE Append(raw_tags, S_Recurring)

\* process_recurring: the row of the INSERT INTO transactions; tid is history,
\* the id of the template the row comes from (0 for every other row)
RecurringTransaction(row) ==
    [date |-> row.next_date, amount |-> row.amount, currency |-> "EUR",
     account |-> row.account, category |-> row.category,
     tags |-> RecurringTags(row.tags),
     description |-> IF row.description # <<>> THEN row.description[1] ELSE row.name,
     type |-> "Expense", source_file |-> S_Recurring,
     original_description |-> row.name, necessity |-> "Need", tid |-> row.id]

\* variant: the template is finished only when the decremented counter is below zero
HandleInstallmentsLate(store, row) ==
    IF row.remaining_installments # <<>>
    THEN LET new_installments == row.remaining_installments[1] - 1
         IN  IF new_installments < 0 THEN delete_recurring(store, row.id)
             ELSE SetInstallments(store, row.id, new_installments)
    ELSE store

\* process_recurring: "Handle Installments decrement"
HandleInstallments(store, row) ==
    IF row.remaining_installments # <<>>
    THEN LET new_installments == row.remaining_installments[1] - 1
         IN  IF new_installments <= 0 THEN delete_recurring(store, row.id)
             ELSE SetInstallments(store, row.id, new_installments)
    ELSE store

\* variant: the template is deleted as soon as the next date reaches the end date
HandleEndDateInclusive(store, row, next_date) ==
    IF row.end_date # <<>> /\ next_date >= row.end_date[1]
    THEN delete_recurring(store, row.id) ELSE store

\* process_recurring: "Handle End Date"
HandleEndDate(store, row, next_date) ==
    IF row.end_date # <<>> /\ next_date > row.end_date[1]
    THEN delete_recurring(store, row.id) ELSE store

\* variant: catch up, one transaction for every period that is overdue
RECURSIVE ProcessRowCatchUp(_, _)
ProcessRowCatchUp(st, row) ==
    LET next_date == AdvanceDate(row.frequency, row.next_date)
        one == [ledger |-> Append(st.ledger, RecurringTransaction(row)),
                templates |-> SetNextDate(st.templates, row.id, next_date)]
    IN  IF next_date <= today /\ next_date > row.next_date
        THEN ProcessRowCatchUp(one, [row EXCEPT !.next_date = next_date])
        ELSE one

\* process_recurring: the body of the loop over the due rows
ProcessRow(st, row) ==
    LET next_date == AdvanceDate(row.frequency, row.next_date)
        s1 == SetNextDate(st.templates, row.id, next_date)
        s2 == HandleInstallments(s1, row)
        s3 == HandleEndDate(s2, row, next_date)
    IN  [ledger |-> Append(st.ledger, RecurringTransaction(row)), templates |-> s3]

\* process_recurring: the loop over the rows that were due when it started
RECURSIVE ProcessRows(_, _)
ProcessRows(st, due) ==
    IF due = <<>> THEN st ELSE ProcessRows(ProcessRow(st, Head(due)), Tail(due))

\* process_recurring(): the store and the ledger after the call, and the count
process_recurring(store, led, day) ==
    LET due == DueTemplates(store, day)
        st  == ProcessRows([ledger |-> led, templates |-> store], due)
    IN  [ledger |-> st.ledger, templates |-> st.templates, count |-> Len(due)]

\* SELECT * FROM recurring_expenses ORDER BY next_date (rows of equal next_date
\* in table order)
RECURSIVE SortByNextDate(_)
SortByNextDate(store) ==
    IF store = <<>> THEN <<>>
    ELSE LET i == CHOOSE i \in 1..Len(store) :
                     /\ \A j \in 1..Len(store) : store[i].next_date <= store[j].next_date
                     /\ \A j \in 1..(i - 1) : store[j].next_date # store[i].next_date
         IN  <<store[i]>> \o
             SortByNextDate(SubSeq(store, 1, i - 1) \o SubSeq(store, i + 1, Len(store)))

\* variant: the templates in table order
GetRecurringTableOrder(store) == store

get_recurring(store) == SortByNextDate(store)

\* variant: an occurrence dated at the horizon itself is left out
RECURSIVE ProjectRuleExclusive(_, _, _, _)
ProjectRuleExclusive(rule, current_next, rem_inst, until) ==
    IF ~(current_next < until) THEN <<>>
    ELSE IF rule.end_date # <<>> /\ current_next > rule.end_date[1] THEN <<>>
    ELSE IF rem_inst # <<>> /\ rem_inst[1] <= 0 THEN <<>>
    ELSE LET occ == [date |-> current_next, amount |-> rule.amount, name |-> rule.name,
                     category |-> rule.category, account |-> rule.account,
                     frequency |-> rule.frequency, tid |-> rule.id]
             rem2 == IF rem_inst # <<>> THEN <<rem_inst[1] - 1>> ELSE rem_inst
         IN  IF KnownFrequency(rule.frequency)
             THEN <<occ>> \o ProjectRuleExclusive(rule,
                                 AdvanceDate(rule.frequency, current_next), rem2, until)
             ELSE <<occ>>

\* variant: the frequency is looked at before anything is emitted, and a
\* template of another frequency gives nothing
RECURSIVE ProjectRuleKnownOnly(_, _, _, _)
ProjectRuleKnownOnly(rule, current_next, rem_inst, until) ==
    IF ~KnownFrequency(rule.frequency) THEN <<>>
    ELSE IF ~(current_next <= until) THEN <<>>
    ELSE IF rule.end_date # <<>> /\ current_next > rule.end_date[1] THEN <<>>
    ELSE IF rem_inst # <<>> /\ rem_inst[1] <= 0 THEN <<>>
    ELSE <<[date |-> current_next, amount |-> rule.amount, name |-> rule.name,
            category |-> rule.category, account |-> rule.account,
            frequency |-> rule.frequency, tid |-> rule.id]>>
         \o ProjectRuleKnownOnly(rule, AdvanceDate(rule.frequency, current_next),
                                 IF rem_inst # <<>> THEN <<rem_inst[1] - 1>> ELSE rem_inst,
                                 until)

\* get_projected_recurring: the while loop for one template
RECURSIVE ProjectRule(_, _, _, _)
ProjectRule(rule, current_next, rem_inst, until) ==
    IF ~(current_next <= until) THEN <<>>
    ELSE IF rule.end_date # <<>> /\ current_next > rule.end_date[1] THEN <<>>
    ELSE IF rem_inst # <<>> /\ rem_inst[1] <= 0 THEN <<>>
    ELSE LET occ == [date |-> current_next, amount |-> rule.amount, name |-> rule.name,
                     category |-> rule.category, account |-> rule.account,
                     frequency |-> rule.frequency, tid |-> rule.id]
             rem2 == IF rem_inst # <<>> THEN <<rem_inst[1] - 1>> ELSE rem_inst
         IN  IF KnownFrequency(rule.frequency)
             THEN <<occ>> \o ProjectRule(rule, AdvanceDate(rule.frequency, current_next),
                                         rem2, until)
             ELSE <<occ>>

\* variant: the projection writes the advanced date of every template back
GetProjectedRecurringPersist(store, end_date) ==
    [store |-> [i \in 1..Len(store) |->
                    IF store[i].next_date <= end_date
                    THEN [store[i] EXCEPT
                             !.next_date = AdvanceDate(store[i].frequency, store[i].next_date)]
                    ELSE store[i]],
     rows  |-> Concat([i \in 1..Len(get_recurring(store)) |->
                  LET rule == get_recurring(store)[i]
                  IN  ProjectRule(rule, rule.next_date, rule.remaining_installments, end_date)])]

\* get_projected_recurring(end_date): the store after the call (the function
\* executes one SELECT and no write) and the rows of the returned frame
get_projected_recurring(store, end_date) ==
    [store |-> store,
     rows  |-> Concat([i \in 1..Len(get_recurring(store)) |->
                  LET rule == get_recurring(store)[i]
                  IN  ProjectRule(rule, rule.next_date, rule.remaining_installments, end_date)])]

-----------------------------------------------------------------------------
(* utils.py: clean_currency, normalize_tags                                *)

Digits == <<"0","1","2","3","4","5","6","7","8","9">>

IsDigit(c) == \E i \in 1..Len(Digits) : Digits[i] = c

DigitVal(c) == (CHOOSE i \in 1..Len(Digits) : Digits[i] = c) - 1

RECURSIVE NatOf(_, _)
NatOf(ds, acc) == IF ds = <<>> THEN acc ELSE NatOf(Tail(ds), 10 * acc + DigitVal(Head(ds)))

AllDigits(s) == \A i \in 1..Len(s) : IsDigit(s[i])

\* float(text) for a decimal literal of at most two decimals, in cents:
\* <<v>> when text is [sign] digits [. digits], <<>> when float() raises
ParseFloat(text) ==
    LET t    == Strip(text)
        neg  == t # <<>> /\ Head(t) = "-"
        body == IF t # <<>> /\ Head(t) \in {"-", "+"} THEN Tail(t) ELSE t
        dots == {i \in 1..Len(body) : body[i] = "."}
        ip   == IF dots = {} THEN body
                ELSE SubSeq(body, 1, (CHOOSE i \in dots : TRUE) - 1)
        fp   == IF dots = {} THEN <<>>
                ELSE SubSeq(body, (CHOOSE i \in dots : TRUE) + 1, Len(body))
        ok   == /\ Cardinality(dots) <= 1
                /\ AllDigits(ip) /\ AllDigits(fp)
                /\ Len(ip) + Len(fp) >= 1
                /\ Len(fp) <= 2
        frac == IF Len(fp) = 0 THEN 0
                ELSE IF Len(fp) = 1 THEN 10 * DigitVal(fp[1])
                ELSE NatOf(fp, 0)
        mag  == 100 * NatOf(ip, 0) + frac
    IN  IF ok THEN <<IF neg THEN -mag ELSE mag>> ELSE <<>>

\* clean_currency(amount_str): a number is taken as it is; anything else is
\* str()'d, ',' becomes '.', and a text float() rejects gives 0.0
clean_currency(amount) ==
    IF amount.num THEN amount.v
    ELSE LET r == ParseFloat(ReplaceChar(amount.s, ",", "."))
         IN  IF r = <<>> THEN 0 ELSE r[1]

\* an element of a tag collection: a str, or something that is no str
StrEl(x) == [str |-> TRUE, s |-> x]
NonStr   == [str |-> FALSE, s |-> <<>>]

\* normalize_tags: the tokens of one element
TagParts(t) ==
    IF t.str
    THEN LET parts == Split(ReplaceChar(RemoveChar(t.s, "#"), ",", " "))
         IN  [i \in 1..Len(parts) |-> Lower(parts[i])]
    ELSE <<>>

\* variant: the tokens are sorted and deduplicated first and lowercased last
NormalizeTagsLowerLast(tags_list) ==
    IF tags_list = <<>> THEN <<>>
    ELSE LET parts == Concat([i \in 1..Len(tags_list) |->
                         IF tags_list[i].str
                         THEN Split(ReplaceChar(RemoveChar(tags_list[i].s, "#"), ",", " "))
                         ELSE <<>>])
             sorted == SortedSeq(Range(parts))
         IN  [i \in 1..Len(sorted) |-> Lower(sorted[i])]

\* normalize_tags(tags_list)
normalize_tags(tags_list) ==
    IF tags_list = <<>> THEN <<>>
    ELSE SortedSeq(Range(Concat([i \in 1..Len(tags_list) |-> TagParts(tags_list[i])])))

-----------------------------------------------------------------------------
(* rules_engine.py: RulesEngine.apply_rules, auto_tag_from_description     *)

\* '|'.join(patterns)
RECURSIVE JoinBar(_)
JoinBar(patterns) ==
    IF patterns = <<>> THEN <<>>
    ELSE IF Len(patterns) = 1 THEN patterns[1]
    ELSE patterns[1] \o <<"|">> \o JoinBar(Tail(patterns))

\* re.compile fails on the joined pattern. The patterns of the model are made
\* of letters and of "(", so the alternation fails to compile exactly when a
\* "(" occurs in it (an unterminated group)
RegexFails(full_regex) == \E i \in 1..Len(full_regex) : full_regex[i] = "("

\* Series.str.contains(full_regex, case=False, na=False, regex=True) for an
\* alternation of literal patterns: some alternative occurs in the text
RegexContains(text, patterns) ==
    \E i \in 1..Len(patterns) : Contains(Lower(text), Lower(patterns[i]))

\* apply_rules: one category rule, one pass over the frame
\* variant: a rule without a necessity puts the rows it matches back to 'Want'
ApplyCategoryRuleResets(df, cat_rule) ==
    [i \in 1..Len(df) |->
        IF RegexContains(df[i].description, cat_rule.match)
        THEN [df[i] EXCEPT !.category = cat_rule.name,
                           !.necessity = IF cat_rule.necessity # <<>>
                                         THEN cat_rule.necessity[1] ELSE "Want"]
        ELSE df[i]]

ApplyCategoryRule(df, cat_rule) ==
    [i \in 1..Len(df) |->
        IF RegexContains(df[i].description, cat_rule.match)
        THEN [df[i] EXCEPT !.category = cat_rule.name,
                           !.necessity = IF cat_rule.necessity # <<>>
                                         THEN cat_rule.necessity[1] ELSE @]
        ELSE df[i]]

\* variant: the rules are applied from the last to the first, so that the
\* first rule of the list that matches a row is the one that stays
RECURSIVE ApplyCategoryRulesFirstWins(_, _)
ApplyCategoryRulesFirstWins(df, cat_rules) ==
    IF cat_rules = <<>> THEN df
    ELSE LET last == cat_rules[Len(cat_rules)]
         IN  ApplyCategoryRulesFirstWins(
                 IF JoinBar(last.match) # <<>> THEN ApplyCategoryRule(df, last) ELSE df,
                 SubSeq(cat_rules, 1, Len(cat_rules) - 1))

\* apply_rules: the loop over self.rules['categories'], in list order; a rule
\* whose joined pattern is empty is passed over
RECURSIVE ApplyCategoryRules(_, _)
ApplyCategoryRules(df, cat_rules) ==
    IF cat_rules = <<>> THEN df
    ELSE ApplyCategoryRules(
             IF JoinBar(Head(cat_rules).match) # <<>>
             THEN ApplyCategoryRule(df, Head(cat_rules)) ELSE df,
             Tail(cat_rules))

\* variant: the tag is appended whether it is there or not
AddTagAlways(row_tags, tag_name) == Append(row_tags, tag_name)

\* add_tag / add_kw_tag: append when not there
AddTag(row_tags, tag_name) ==
    IF \E i \in 1..Len(row_tags) : row_tags[i] = tag_name
    THEN row_tags ELSE Append(row_tags, tag_name)

\* apply_rules: one tag rule
ApplyTagRule(df, tag_rule) ==
    [i \in 1..Len(df) |->
        IF RegexContains(df[i].description, tag_rule.match)
        THEN [df[i] EXCEPT !.tags = AddTag(@, tag_rule.tag)]
        ELSE df[i]]

\* apply_rules: the loop over self.rules['tags']
RECURSIVE ApplyTagRules(_, _)
ApplyTagRules(df, tag_rules) ==
    IF tag_rules = <<>> THEN df
    ELSE ApplyTagRules(
             IF JoinBar(Head(tag_rules).match) # <<>>
             THEN ApplyTagRule(df, Head(tag_rules)) ELSE df,
             Tail(tag_rules))

\* str.contains raises re.error at the first rule, in the order the rules are
\* applied, whose joined pattern does not compile
RulesRaise(doc) ==
    \/ \E i \in 1..Len(doc.categories) : RegexFails(JoinBar(doc.categories[i].match))
    \/ \E i \in 1..Len(doc.tags) : RegexFails(JoinBar(doc.tags[i].match))

\* apply_rules(df): ok is FALSE when the call raises; an empty frame is
\* returned at once
apply_rules(doc, df) ==
    IF df = <<>> THEN [ok |-> TRUE, df |-> df]
    ELSE IF RulesRaise(doc) THEN [ok |-> FALSE, df |-> df]
    ELSE [ok |-> TRUE,
          df |-> ApplyTagRules(ApplyCategoryRules(df, doc.categories), doc.tags)]

\* a line of rules.yaml: a top-level key, or an entry under the key before it
YamlKey(key) == [key |-> key, item |-> <<>>]
YamlItem(value) == [key |-> "-", item |-> <<value>>]

\* yaml.dump(new_rules, f): the keys in sorted order, each followed by the
\* entries of its list (by its mapping, for split_config)
yaml_dump(doc) ==
    <<YamlKey("categories")>> \o [i \in 1..Len(doc.categories) |-> YamlItem(doc.categories[i])]
    \o (IF "split_config" \in DOMAIN doc
        THEN <<YamlKey("split_config"), YamlItem(doc.split_config)>> ELSE <<>>)
    \o <<YamlKey("tags")>> \o [i \in 1..Len(doc.tags) |-> YamlItem(doc.tags[i])]

\* auto_tag_from_description: the built-in keyword list
Keywords == << <<"l","u","c","e">>, <<"g","a","s">>,
               <<"i","n","t","e","r","n","e","t">>, <<"t","a","x","i">>,
               <<"u","b","e","r">>, <<"a","m","a","z","o","n">> >>

RECURSIVE AutoTagFrom(_, _)
AutoTagFrom(df, kws) ==
    IF kws = <<>> THEN df
    ELSE AutoTagFrom(
             [i \in 1..Len(df) |->
                 IF Contains(Lower(df[i].description), Head(kws))
                 THEN [df[i] EXCEPT !.tags = AddTag(@, Head(kws))]
                 ELSE df[i]],
             Tail(kws))

\* auto_tag_from_description(df)
auto_tag_from_description(df) == AutoTagFrom(df, Keywords)

-----------------------------------------------------------------------------
(* data_manager.py: _process_and_insert, ingest_zip                        *)

\* variant: the sign of an Expense is left as the source gave it
ForceSignIncomeOnly(type, amount) ==
    IF type = "Income" THEN Abs(amount) ELSE amount

\* _process_and_insert "Ensure Expenses are negative / Income is positive"
ForceSign(type, amount) ==
    IF type = "Expense" THEN -Abs(amount)
    ELSE IF type = "Income" THEN Abs(amount)
    ELSE amount

\* handle_raw_tags(x), x the Labels cell after fillna('')
handle_raw_tags(x) ==
    IF x.kind = "nan" THEN <<>>
    ELSE IF x.kind = "list"
         THEN (IF x.l = <<>> THEN <<>>
               ELSE normalize_tags([i \in 1..Len(x.l) |-> StrEl(x.l[i])]))
         ELSE (IF x.s = <<>> THEN <<>> ELSE normalize_tags(<<StrEl(x.s)>>))

\* _process_and_insert: rename, fill, stamp, parse and force the sign of one
\* row; necessity is <<>> while the frame has no such column
TransformRow(raw, filename) ==
    LET description == IF raw.description = <<>> THEN <<>> ELSE raw.description[1]
    IN  [date |-> raw.date,
         amount |-> ForceSign(raw.type, clean_currency(raw.amount)),
         currency |-> raw.currency, account |-> raw.account,
         category |-> raw.category,
         tags |-> handle_raw_tags(raw.tags),
         description |-> description,
         type |-> raw.type, source_file |-> filename,
         original_description |-> description,
         necessity |-> raw.necessity, tid |-> 0]

\* apply_rules "Default necessity" and _process_and_insert: the column is
\* created with 'Want' when the frame has none; in a frame that has the
\* column an empty cell stays NULL
DefaultNecessity(df, necessity_col) ==
    [i \in 1..Len(df) |->
        [df[i] EXCEPT !.necessity = IF ~necessity_col THEN "Want"
                                    ELSE IF @ = <<>> THEN "NULL" ELSE @[1]]]

\* _process_and_insert(df, filename): ok is FALSE when it raises (a frame
\* without the expected columns, or a rule that does not compile), and then
\* nothing was inserted; the INSERT is the last statement
InsertFrame(led, r) ==
    IF ~r.ok THEN [ok |-> FALSE, ledger |-> led]
    ELSE [ok |-> TRUE, ledger |-> led \o auto_tag_from_description(r.df)]

process_and_insert(led, doc, batch, filename) ==
    IF batch.malformed THEN [ok |-> FALSE, ledger |-> led]
    ELSE InsertFrame(led,
             apply_rules(doc,
                 DefaultNecessity(
                     [i \in 1..Len(batch.rows) |-> TransformRow(batch.rows[i], filename)],
                     batch.necessity_col)))

\* variant: no file counts as imported already
ExistingFilesNone(led) == {}

\* ingest_zip: SELECT DISTINCT source_file FROM transactions
ExistingFiles(led) == {led[i].source_file : i \in 1..Len(led)}

\* variant: a file that raises takes the rows of the files before it along
IngestFileRollback(st, r) ==
    IF r.ok THEN [st EXCEPT !.ledger = r.ledger, !.count = @ + 1]
    ELSE [st EXCEPT !.ok = FALSE, !.ledger = <<>>]

\* ingest_zip: one entry of the archive went through _process_and_insert
IngestFile(st, r) ==
    IF r.ok THEN [st EXCEPT !.ledger = r.ledger, !.count = @ + 1]
    ELSE [st EXCEPT !.ok = FALSE]

\* ingest_zip: one turn of the loop over z.namelist()
IngestEntry(st, doc, f, existing_files) ==
    IF ~EndsWith(f.name, S_dotcsv) THEN st
    ELSE IF f.name \in existing_files THEN [st EXCEPT !.skipped = @ + 1]
    ELSE IngestFile(st, process_and_insert(st.ledger, doc, f.batch, f.name))

\* ingest_zip: the loop over z.namelist(); st carries the ledger, the two
\* counters and ok, which turns FALSE when a file raises and ends the loop
RECURSIVE IngestFiles(_, _, _, _)
IngestFiles(st, doc, files, existing_files) ==
    IF files = <<>> \/ ~st.ok THEN st
    ELSE IngestFiles(IngestEntry(st, doc, Head(files), existing_files),
                     doc, Tail(files), existing_files)

\* ingest_zip(zip_path): the ledger after the call and the returned pair
ingest_zip(led, doc, archive) ==
    IngestFiles([ledger |-> led, count |-> 0, skipped |-> 0, ok |-> TRUE],
                doc, archive, ExistingFiles(led))

-----------------------------------------------------------------------------
(* Values every specification starts from                                  *)

MaxTemplates == 2      \* templates ever added
MaxLedger    == 3      \* rows in the ledger
MaxWeeks     == 5      \* weeks the clock runs
MaxRows      == 2      \* rows in the ledger of the ingestion specifications
MaxCatRules  == 2      \* category rules in the rule document
MaxTagRules  == 1      \* tag rules in the rule document
MaxFiles     == 2      \* entries of an archive
MaxPending   == 3      \* entries of the review queue
MaxStoreRules == 2     \* category rules of a rule document of the rule store
MaxSplitRows == 2      \* ledger rows of the split specification
MaxSplitRules == 2     \* split rules in split_config
MaxTagLen    == 3      \* characters of an element handed to normalize_tags
MaxTagList   == 2      \* elements of a list handed to normalize_tags

FirstDay == MkDate(2024, 1, 24)
LastDay  == AddDays(FirstDay, 7 * MaxWeeks)

NoProjection == [until |-> 0, rows |-> <<>>]
NoRules      == [categories |-> <<>>, tags |-> <<>>]
NoReport     == [total |-> 0, split |-> <<>>, loan |-> <<>>]

-----------------------------------------------------------------------------
(* Specification SpecRecurring: the recurring engine and the clock         *)

RecFrequencies == {"Weekly", "Monthly", "Yearly", "Other"}
RecStartDate   == MkDate(2024, 1, 31)
\* the stop conditions of a template: remaining_installments and end_date
RecLimits ==
    {[n |-> n, e |-> <<>>] : n \in {<<>>, <<0>>, <<1>>, <<2>>}} \cup
    {[n |-> <<>>, e |-> <<e>>] : e \in {MkDate(2024, 1, 25), MkDate(2024, 2, 29)}} \cup
    {[n |-> <<2>>, e |-> <<MkDate(2024, 2, 29)>>]}

\* calendar.monthrange: the last day of the month of d
EndOfMonth(d) == MkDate(Y(d), M(d), DaysInMonth(Y(d), M(d)))

\* the horizons the pages ask for: recurring.py today + 30 days, dashboard.py
\* the end of the selected month
UntilDates == {AddDays(today, 30), EndOfMonth(today)}

InitRecurring ==
    /\ ledger = <<>>
    /\ templates = <<>>
    /\ today = FirstDay
    /\ created = <<>>
    /\ projection = NoProjection
    /\ rules = NoRules
    /\ pending = <<>>
    /\ tagsIn = <<>>
    /\ tagsOut = <<>>
    /\ report = NoReport
    /\ rulesFile = yaml_dump(rules)
    /\ sessions = <<>>
    /\ lastOp = [op |-> "init"]

\* recurring.py "Save Template" / editor "Save Changes": DataManager.add_recurring
AddRecurring ==
    /\ Len(created) < MaxTemplates
    /\ \E f \in RecFrequencies, lim \in RecLimits :
          LET id == Len(created) + 1
              store == add_recurring(templates, id, S_Netflix, -1000, "Bills", "Cash",
                                     f, RecStartDate, <<S_Netflix>>, <<S_sub>>,
                                     lim.n, lim.e)
          IN  /\ templates' = store
              /\ created' = Append(created, store[Len(store)])
    /\ projection' = NoProjection
    /\ lastOp' = [op |-> "add_recurring"]
    /\ UNCHANGED <<rulesFile, sessions, ledger, today, rules, pending, tagsIn, tagsOut, report>>

\* recurring.py "Check & Generate Due": DataManager.process_recurring
ProcessRecurring ==
    /\ Len(ledger) + Len(DueTemplates(templates, today)) <= MaxLedger
    /\ LET r == process_recurring(templates, ledger, today)
       IN  /\ ledger' = r.ledger
           /\ templates' = r.templates
           /\ lastOp' = [op |-> "process_recurring", count |-> r.count]
    /\ projection' = NoProjection
    /\ UNCHANGED <<rulesFile, sessions, today, created, rules, pending, tagsIn, tagsOut, report>>

\* recurring.py / dashboard.py: DataManager.get_projected_recurring
ProjectRecurring ==
    /\ \E until \in UntilDates :
          LET r == get_projected_recurring(templates, until)
          IN  /\ templates' = r.store
              /\ projection' = [until |-> until, rows |-> r.rows]
              /\ lastOp' = [op |-> "project"]
    /\ UNCHANGED <<rulesFile, sessions, ledger, today, created, rules, pending, tagsIn, tagsOut, report>>

\* the clock: a week passes between two visits
AdvanceToday ==
    /\ AddDays(today, 7) <= LastDay
    /\ today' = AddDays(today, 7)
    /\ lastOp' = [op |-> "advance_today"]
    /\ UNCHANGED <<rulesFile, sessions, ledger, templates, created, projection, rules, pending, tagsIn, tagsOut, report>>

NextRecurring == AddRecurring \/ ProcessRecurring \/ ProjectRecurring \/ AdvanceToday

SpecRecurring == InitRecurring /\ [][NextRecurring]_vars

-----------------------------------------------------------------------------
(* Ingestion: the user actions that reach _process_and_insert              *)

S_coopgas == <<"C","o","o","p"," ","g","a","s">>
S_conad   == <<"c","o","n","a","d">>
S_taxi    == <<"t","a","x","i">>
S_luce    == <<"B","o","l","l","e","t","t","a"," ","L","u","c","e">>
S_food    == <<"f","o","o","d">>
S_gas     == <<"g","a","s">>
S_hfood   == <<"#","f","o","o","d">>
S_1550    == <<"1","5",",","5","0">>
S_m1550   == <<"-","1","5",",","5","0">>
S_abc     == <<"a","b","c">>
S_acsv    == <<"a",".","c","s","v">>
S_bcsv    == <<"b",".","c","s","v">>
S_ecsv    == <<"e",".","c","s","v">>
S_xcsv    == <<"x",".","c","s","v">>
S_ntxt    == <<"n",".","t","x","t">>

Num(v)  == [num |-> TRUE, v |-> v, s |-> <<>>]
Text(x) == [num |-> FALSE, v |-> 0, s |-> x]

TagsNaN      == [kind |-> "nan", s |-> <<>>, l |-> <<>>]
TagsStr(x)   == [kind |-> "str", s |-> x, l |-> <<>>]
TagsList(xs) == [kind |-> "list", s |-> <<>>, l |-> xs]

\* one row of a frame handed to _process_and_insert, columns already renamed;
\* the date is a parsed date
RawRow(type, amount, category, description, tags, necessity) ==
    [date |-> MkDate(2024, 1, 5), account |-> "Cash", type |-> type,
     category |-> category, amount |-> amount, currency |-> "EUR",
     description |-> description, tags |-> tags, necessity |-> necessity]

\* a frame: malformed when a column _process_and_insert reads is missing
Batch(rows, necessity_col) ==
    [malformed |-> FALSE, necessity_col |-> necessity_col, rows |-> rows]

MalformedBatch == [malformed |-> TRUE, necessity_col |-> FALSE, rows |-> <<>>]

\* an entry of an archive
File(name, batch) == [name |-> name, batch |-> batch]

\* importer.py "Process Import": DataManager.ingest_zip
IngestZipOf(archives) ==
    \E archive \in archives :
        /\ \E r \in {ingest_zip(ledger, rules, archive)} :
               /\ Len(r.ledger) <= MaxRows
               /\ ledger' = r.ledger
               /\ lastOp' = [op |-> "ingest_zip", ok |-> r.ok, archive |-> archive,
                             count |-> r.count, skipped |-> r.skipped,
                             base |-> Len(ledger), existing |-> ExistingFiles(ledger),
                             again |-> lastOp.op = "ingest_zip" /\ lastOp.archive = archive]
        /\ UNCHANGED <<rulesFile, sessions, templates, today, created, projection, rules, pending,
                       tagsIn, tagsOut, report>>

\* app.py "Quick Add Transaction"
QuickAddOf(types, amounts, descriptions) ==
    \E qa_type \in types, qa_amount \in amounts, qa_desc \in descriptions :
        /\ qa_amount > 0
        /\ Len(ledger) < MaxRows
        /\ LET new_row == RawRow(qa_type,
                                 Num(IF qa_type = "Expense" THEN -qa_amount ELSE qa_amount),
                                 "General", <<qa_desc>>, TagsList(<<>>), <<"Want">>)
           IN  \E r \in {process_and_insert(ledger, rules, Batch(<<new_row>>, TRUE), S_manual)} :
               /\ ledger' = r.ledger
               /\ lastOp' = [op |-> "quick_add", ok |-> r.ok, rows |-> <<new_row>>,
                             base |-> Len(ledger)]
        /\ UNCHANGED <<rulesFile, sessions, templates, today, created, projection, rules, pending,
                       tagsIn, tagsOut, report>>

\* importer.py "Import Bill Transaction"
BillConfirmOf(amounts) ==
    \E b_amount \in amounts :
        /\ Len(ledger) < MaxRows
        /\ LET new_row == RawRow("Expense", Num(-Abs(b_amount)), "Fatture", <<S_luce>>,
                                 TagsList(<<>>), <<"Need">>)
           IN  \E r \in {process_and_insert(ledger, rules, Batch(<<new_row>>, TRUE), S_pdf)} :
               /\ ledger' = r.ledger
               /\ lastOp' = [op |-> "bill_confirm", ok |-> r.ok, rows |-> <<new_row>>,
                             base |-> Len(ledger)]
        /\ UNCHANGED <<rulesFile, sessions, templates, today, created, projection, rules, pending,
                       tagsIn, tagsOut, report>>

\* importer.py "Confirm & Add" on the head of the review queue; when
\* _process_and_insert raises, the statements after it (the pop and the
\* rewrite of the file) do not run
ConfirmPendingOf(amounts) ==
    \E p_amount \in amounts :
        /\ pending # <<>>
        /\ Len(ledger) < MaxRows
        /\ LET current_tx == pending[1]
               p_type == IF p_amount < 0 THEN "Expense" ELSE "Income"
               new_row == RawRow(p_type, Num(p_amount), "General",
                                 current_tx.description, TagsList(<<>>), <<"Need">>)
           IN  \E r \in {process_and_insert(ledger, rules, Batch(<<new_row>>, TRUE), S_review)} :
               /\ ledger' = r.ledger
               /\ pending' = IF r.ok THEN Tail(pending) ELSE pending
               /\ lastOp' = [op |-> "confirm_pending", ok |-> r.ok, rows |-> <<new_row>>,
                             base |-> Len(ledger)]
        /\ UNCHANGED <<rulesFile, sessions, templates, today, created, projection, rules,
                       tagsIn, tagsOut, report>>

\* the raw rows the operation before this state handed to _process_and_insert
\* and that were inserted, in ledger order from lastOp.base + 1 on
InputRows ==
    IF lastOp.op \in {"quick_add", "bill_confirm", "confirm_pending"}
    THEN (IF lastOp.ok THEN lastOp.rows ELSE <<>>)
    ELSE IF lastOp.op = "ingest_zip" /\ Len(lastOp.archive) = 1 /\ lastOp.count = 1
    THEN lastOp.archive[1].batch.rows
    ELSE <<>>

\* rule documents rules.yaml can hold when the engine is constructed
R_groc == [name |-> "Groceries", match |-> <<S_conad, <<"c","o","o","p">> >>,
           necessity |-> <<"Need">>]
R_fuel == [name |-> "Fuel", match |-> << <<"G","A","S">> >>, necessity |-> <<>>]
R_none == [name |-> "Unused", match |-> <<>>, necessity |-> <<>>]
R_bad  == [name |-> "Broken", match |-> << <<"(">> >>, necessity |-> <<>>]
T_shop == [tag |-> <<"s","h","o","p">>, match |-> << <<"c","o","o","p">> >>]

CatRuleKinds == {R_groc, R_fuel, R_none, R_bad}
TagRuleKinds == {T_shop}

RuleDocs ==
    {[categories |-> c, tags |-> t] :
        c \in SeqsUpTo(CatRuleKinds, MaxCatRules), t \in SeqsUpTo(TagRuleKinds, MaxTagRules)}

OcrGuess(description, amount) ==
    [description |-> description, amount |-> amount, date |-> MkDate(2024, 1, 5)]

-----------------------------------------------------------------------------
(* Specification SpecProcess: every entry to _process_and_insert, amounts  *)
(* of either sign, as numbers and as text                                  *)

CsvAmounts == {Text(S_1550), Text(S_m1550), Text(S_abc), Num(1550), Num(-1550)}

CsvRowsProcess ==
    {RawRow(t, a, "Groceries", <<>>, TagsStr(S_hfood), <<>>) :
        t \in {"Expense", "Income", "Transfer"}, a \in CsvAmounts}

ArchivesProcess == {<<File(S_acsv, Batch(<<r>>, FALSE))>> : r \in CsvRowsProcess}

InitProcess ==
    /\ ledger = <<>>
    /\ templates = <<>>
    /\ today = FirstDay
    /\ created = <<>>
    /\ projection = NoProjection
    /\ rules \in {NoRules, [categories |-> <<R_groc>>, tags |-> <<T_shop>>]}
    /\ pending = <<OcrGuess(<<S_taxi>>, -1550), OcrGuess(<<>>, 1550)>>
    /\ tagsIn = <<>>
    /\ tagsOut = <<>>
    /\ report = NoReport
    /\ rulesFile = yaml_dump(rules)
    /\ sessions = <<>>
    /\ lastOp = [op |-> "init"]

NextProcess ==
    \/ IngestZipOf(ArchivesProcess)
    \/ QuickAddOf({"Expense", "Income"}, {0, 1550}, {S_coopgas})
    \/ BillConfirmOf({1550, -1550})
    \/ ConfirmPendingOf({-1550, 0, 1550})

SpecProcess == InitProcess /\ [][NextProcess]_vars

-----------------------------------------------------------------------------
(* Specification SpecRules: the rule engine on rows of several             *)
(* descriptions, under every rule document of the bounds                   *)

CsvRowsRules ==
    {RawRow("Expense", Text(S_1550), "Misc", d, t, <<>>) :
        d \in {<<>>, <<S_coopgas>>, <<S_conad>>},
        t \in {TagsNaN, TagsStr(<<"#","g","a","s"," ","s","h","o","p">>)}}

\* a row the ledger holds from an import made under an earlier rule document
LegacyRow ==
    [date |-> MkDate(2024, 1, 2), amount |-> -1000, currency |-> "EUR",
     account |-> "Cash", category |-> "Misc", tags |-> <<S_food>>,
     description |-> S_coopgas, type |-> "Expense", source_file |-> S_bcsv,
     original_description |-> S_coopgas, necessity |-> "Want", tid |-> 0]

\* settings.py "Apply Rules to All Data": the rules are applied to the whole
\* table, which is then deleted and written back, each statement committed
\* on its own. When apply_rules raises, the handler reports the error and
\* the table is as it was; when the INSERT raises, the DELETE before it has
\* emptied the table
ApplyRulesToAll ==
    /\ ledger # <<>>
    /\ \E r \in {apply_rules(rules, ledger)}, inserted \in BOOLEAN :
          /\ ledger' = IF ~r.ok THEN ledger
                       ELSE IF inserted THEN auto_tag_from_description(r.df)
                       ELSE <<>>
          /\ lastOp' = [op |-> "apply_rules_all", ok |-> r.ok /\ inserted,
                        before |-> ledger]
    /\ UNCHANGED <<rulesFile, sessions, templates, today, created, projection, rules, pending,
                   tagsIn, tagsOut, report>>

ArchivesRules == {<<File(S_acsv, Batch(<<r>>, FALSE))>> : r \in CsvRowsRules}

InitRules ==
    /\ ledger \in {<<>>, <<LegacyRow>>}
    /\ templates = <<>>
    /\ today = FirstDay
    /\ created = <<>>
    /\ projection = NoProjection
    /\ rules \in RuleDocs
    /\ pending = <<>>
    /\ tagsIn = <<>>
    /\ tagsOut = <<>>
    /\ report = NoReport
    /\ rulesFile = yaml_dump(rules)
    /\ sessions = <<>>
    /\ lastOp = [op |-> "init"]

NextRules ==
    \/ IngestZipOf(ArchivesRules)
    \/ QuickAddOf({"Expense"}, {1550}, {S_coopgas, S_conad, S_taxi})
    \/ ApplyRulesToAll

SpecRules == InitRules /\ [][NextRules]_vars

\* the category rules, by position, whose pattern is applied and matches
MatchingCatRules(description) ==
    {k \in 1..Len(rules.categories) :
        /\ JoinBar(rules.categories[k].match) # <<>>
        /\ RegexContains(description, rules.categories[k].match)}

SetMax(S) == CHOOSE x \in S : \A y \in S : y <= x

\* C10: a row inserted through apply_rules carries the category of the last
\* rule, in list order, whose patterns match its description, and the
\* category it came with when no rule matches.
C10_LastMatchWins ==
    \A i \in 1..Len(InputRows) :
        LET raw  == InputRows[i]
            desc == IF raw.description = <<>> THEN <<>> ELSE raw.description[1]
            m    == MatchingCatRules(desc)
        IN  ledger[lastOp.base + i].category =
                IF m = {} THEN raw.category ELSE rules.categories[SetMax(m)].name

\* C10 witness: the inserted row matches two rules of different names and has
\* the name of the later one
C10_Witness ==
    \E i \in 1..Len(InputRows) :
        LET raw == InputRows[i]
            m   == MatchingCatRules(raw.description[1])
        IN  /\ raw.description # <<>>
            /\ Cardinality(m) = 2
            /\ \E k \in m : rules.categories[k].name # rules.categories[SetMax(m)].name
            /\ ledger[lastOp.base + i].category = rules.categories[SetMax(m)].name

\* the matching category rules, by position, that specify a necessity
MatchingNecessityRules(description) ==
    {k \in MatchingCatRules(description) : rules.categories[k].necessity # <<>>}

\* the last operation handed _process_and_insert a frame without a necessity
\* column
NoNecessityColumn ==
    /\ lastOp.op = "ingest_zip"
    /\ InputRows # <<>>
    /\ ~lastOp.archive[1].batch.necessity_col

\* C30: a row inserted through apply_rules whose description matches a
\* category rule with a necessity and, later in the list, a category rule
\* without one has the category of the later rule and the necessity of the
\* last matching rule that specifies one; a row of a batch without a necessity
\* column that no rule with a necessity matches has necessity 'Want'.
C30_NecessityCarried ==
    \A i \in 1..Len(InputRows) :
        LET raw  == InputRows[i]
            desc == IF raw.description = <<>> THEN <<>> ELSE raw.description[1]
            m    == MatchingCatRules(desc)
            mn   == MatchingNecessityRules(desc)
            row  == ledger[lastOp.base + i]
        IN  /\ (mn # {} /\ SetMax(m) \notin mn) =>
                   /\ row.category = rules.categories[SetMax(m)].name
                   /\ row.necessity = rules.categories[SetMax(mn)].necessity[1]
            /\ (mn = {} /\ NoNecessityColumn) => row.necessity = "Want"

\* C30 witness: a row of a CSV without a necessity column matched Groceries
\* (necessity Need) and then Fuel (no necessity); it is in the ledger as Fuel
\* with necessity Need
C30_Witness ==
    /\ NoNecessityColumn
    /\ \E i \in 1..Len(InputRows) :
           LET raw == InputRows[i]
               m   == MatchingCatRules(raw.description[1])
               mn  == MatchingNecessityRules(raw.description[1])
           IN  /\ raw.description # <<>>
               /\ mn # {}
               /\ SetMax(m) \notin mn
               /\ rules.categories[SetMax(m)].name # rules.categories[SetMax(mn)].name
               /\ ledger[lastOp.base + i].category = rules.categories[SetMax(m)].name
               /\ ledger[lastOp.base + i].necessity = "Need"

\* the rows the operation before this state passed through apply_rules and
\* auto_tag_from_description, as pairs of the tags before and the tags after
TagPairs ==
    IF lastOp.op = "apply_rules_all"
    THEN (IF lastOp.ok
          THEN [i \in 1..Len(ledger) |->
                   [before |-> lastOp.before[i].tags, after |-> ledger[i].tags]]
          ELSE <<>>)
    ELSE [i \in 1..Len(InputRows) |->
             [before |-> handle_raw_tags(InputRows[i].tags),
              after |-> ledger[lastOp.base + i].tags]]

Count(seq, x) == Cardinality({i \in 1..Len(seq) : seq[i] = x})

\* C11: for every row that went through apply_rules and
\* auto_tag_from_description, the tags before are the first tags after, in
\* their order, and every tag that follows them was not among them and
\* occurs once.
C11_TagsAdditive ==
    \A k \in 1..Len(TagPairs) :
        LET before == TagPairs[k].before
            after  == TagPairs[k].after
        IN  /\ Len(before) <= Len(after)
            /\ SubSeq(after, 1, Len(before)) = before
            /\ \A j \in (Len(before) + 1)..Len(after) :
                   /\ Count(before, after[j]) = 0
                   /\ Count(after, after[j]) = 1

\* C11 witness: a row tagged gas and shop, whose description has the keyword
\* gas and matches the tag rule shop, keeps the two tags and gains none
C11_Witness ==
    /\ lastOp.op = "ingest_zip"
    /\ Len(rules.tags) = 1
    /\ \E k \in 1..Len(TagPairs) :
          /\ InputRows[k].description = <<S_coopgas>>
          /\ TagPairs[k].before = <<S_gas, T_shop.tag>>
          /\ TagPairs[k].after = <<S_gas, T_shop.tag>>

------------------------------------------------------------------------\* C22: after an action that reported a failure, the ledger holds the rows
\* it held before the action: 'Apply Rules to All Data' leaves the table as
\* it was, and a failed import or quick add inserts no row.
C22_NoPartialApply ==
    /\ (lastOp.op = "apply_rules_all" /\ ~lastOp.ok) => ledger = lastOp.before
    /\ (lastOp.op \in {"quick_add", "ingest_zip"} /\ ~lastOp.ok) =>
           Len(ledger) = lastOp.base

\* the category rules, by position, whose joined pattern compiles and matches
CompilingCatRules(description) ==
    {k \in MatchingCatRules(description) : ~RegexFails(JoinBar(rules.categories[k].match))}

\* the rows the operation before this state handed to _process_and_insert
SubmittedRows ==
    IF lastOp.op = "quick_add" THEN lastOp.rows
    ELSE IF lastOp.op = "ingest_zip" /\ lastOp.existing = {}
    THEN lastOp.archive[1].batch.rows
    ELSE <<>>

\* C18: under a rule document with a rule whose joined pattern does not
\* compile, an ingestion reports no error, inserts its rows, and each row has
\* the category of the last rule that compiles and matches its description.
C18_BadRuleSkipped ==
    (RulesRaise(rules) /\ SubmittedRows # <<>>) =>
        /\ lastOp.ok
        /\ Len(ledger) = lastOp.base + Len(SubmittedRows)
        /\ \A i \in 1..Len(SubmittedRows) :
               LET raw  == SubmittedRows[i]
                   desc == IF raw.description = <<>> THEN <<>> ELSE raw.description[1]
                   m    == CompilingCatRules(desc)
               IN  ledger[lastOp.base + i].category =
                       IF m = {} THEN raw.category ELSE rules.categories[SetMax(m)].name

-----
(* Specification SpecPending: the screenshot review queue                  *)

\* importer.py "Process Screenshot": the transactions the OCR engine found are
\* appended to the queue file; nothing is done when it found none
ProcessScreenshotOf(guesses) ==
    \E results \in SeqsUpTo(guesses, 2) :
        /\ results # <<>>
        /\ Len(pending) + Len(results) <= MaxPending
        /\ pending' = pending \o results
        /\ lastOp' = [op |-> "process_screenshot"]
        /\ UNCHANGED <<rulesFile, sessions, ledger, templates, today, created, projection, rules,
                       tagsIn, tagsOut, report>>

\* importer.py "Discard/Ignore" on the head of the review queue
DiscardPending ==
    /\ pending # <<>>
    /\ pending' = Tail(pending)
    /\ lastOp' = [op |-> "discard_pending"]
    /\ UNCHANGED <<rulesFile, sessions, ledger, templates, today, created, projection, rules,
                   tagsIn, tagsOut, report>>

OcrGuesses == {OcrGuess(<<S_taxi>>, -1550), OcrGuess(<<S_conad>>, 1550)}

InitPending ==
    /\ ledger = <<>>
    /\ templates = <<>>
    /\ today = FirstDay
    /\ created = <<>>
    /\ projection = NoProjection
    /\ rules \in {NoRules, [categories |-> <<R_groc>>, tags |-> <<T_shop>>],
                  [categories |-> <<R_bad>>, tags |-> <<>>]}
    /\ pending = <<>>
    /\ tagsIn = <<>>
    /\ tagsOut = <<>>
    /\ report = NoReport
    /\ rulesFile = yaml_dump(rules)
    /\ sessions = <<>>
    /\ lastOp = [op |-> "init"]

NextPending ==
    \/ ProcessScreenshotOf(OcrGuesses)
    \/ ConfirmPendingOf({-1550, 0, 1550})
    \/ DiscardPending
    \/ QuickAddOf({"Expense"}, {1550}, {S_taxi})

SpecPending == InitPending /\ [][NextPending]_vars

\* C14: a screenshot only appends to the queue and leaves the ledger as it
\* is; the queue loses an entry only by Confirm or Discard, and then its head;
\* Confirm inserts one ledger row and removes the head, Discard removes the
\* head and inserts nothing, and the entries behind the head stay in their
\* order.
C14_PendingQueue ==
    [][/\ lastOp'.op = "process_screenshot" =>
              /\ ledger' = ledger
              /\ Len(pending') > Len(pending)
              /\ SubSeq(pending', 1, Len(pending)) = pending
       /\ Len(pending') < Len(pending) =>
              /\ lastOp'.op \in {"confirm_pending", "discard_pending"}
              /\ pending' = Tail(pending)
       /\ lastOp'.op = "confirm_pending" =>
              /\ Len(ledger') = Len(ledger) + 1
              /\ SubSeq(ledger', 1, Len(ledger)) = ledger
              /\ pending' = Tail(pending)
       /\ lastOp'.op = "discard_pending" =>
              /\ ledger' = ledger
              /\ pending' = Tail(pending)]_vars

-----------------------------------------------------------------------------
(* Specification SpecLedger: every writer of the table transactions        *)

S_saldo   == <<"S","a","l","d","o"," ","I","n","i","z","i","a","l","e">>
S_Initial == <<"I","n","i","t","i","a","l">>

\* get_initial_balance: the row described 'Saldo Iniziale', the one tagged
\* 'Initial' first; 0 when there is none
get_initial_balance(led) ==
    LET strict == {i \in 1..Len(led) :
                      led[i].description = S_saldo /\ S_Initial \in Range(led[i].tags)}
        loose  == {i \in 1..Len(led) : led[i].description = S_saldo}
    IN  IF strict # {} THEN CHOOSE i \in strict : \A j \in strict : i <= j
        ELSE IF loose # {} THEN CHOOSE i \in loose : \A j \in loose : i <= j
        ELSE 0

\* the row of the INSERT of set_initial_balance
InitialBalanceRow(date, amount) ==
    [date |-> date, amount |-> amount, currency |-> "EUR",
     account |-> "Initial Assets", category |-> "Initial Balance",
     tags |-> <<S_Initial>>, description |-> S_saldo, type |-> "Income",
     source_file |-> S_manual, original_description |-> S_saldo,
     necessity |-> "Need", tid |-> 0]

\* set_initial_balance(date, amount): UPDATE of the rows described
\* 'Saldo Iniziale' when there is an initial balance, INSERT otherwise
set_initial_balance(led, date, amount) ==
    IF get_initial_balance(led) # 0
    THEN [i \in 1..Len(led) |->
             IF led[i].description = S_saldo
             THEN [led[i] EXCEPT !.date = date, !.amount = amount] ELSE led[i]]
    ELSE Append(led, InitialBalanceRow(date, amount))

SetInitialBalanceOf(amounts) ==
    \E amount \in amounts :
        /\ Len(ledger) < MaxLedger
        /\ ledger' = set_initial_balance(ledger, today, amount)
        /\ lastOp' = [op |-> "set_initial_balance", amount |-> amount]
        /\ UNCHANGED <<rulesFile, sessions, templates, today, created, projection, rules, pending,
                       tagsIn, tagsOut, report>>

\* recurring.py "Save Template": the amount is negative for an expense and
\* positive for an income
AddRecurringOf(amounts, tag_lists) ==
    \E r_amount \in amounts, final_tags \in tag_lists :
        /\ Len(created) < MaxTemplates
        /\ \E store \in {add_recurring(templates, Len(created) + 1, S_Netflix, r_amount,
                                       "Bills", "Cash", "Monthly", FirstDay,
                                       <<S_Netflix>>, final_tags, <<>>, <<>>)} :
              /\ templates' = store
              /\ created' = Append(created, store[Len(store)])
        /\ projection' = NoProjection
        /\ lastOp' = [op |-> "add_recurring"]
        /\ UNCHANGED <<rulesFile, sessions, ledger, today, rules, pending, tagsIn, tagsOut, report>>

ArchivesLedger ==
    {<<File(S_acsv, Batch(<<RawRow("Expense", Text(S_1550), "Misc", <<S_coopgas>>,
                                   TagsStr(<<"#","G","a","s"," ","g","a","s">>), <<>>)>>,
                          FALSE))>>}

InitLedger ==
    /\ ledger = <<>>
    /\ templates = <<>>
    /\ today = FirstDay
    /\ created = <<>>
    /\ projection = NoProjection
    /\ rules \in {NoRules, [categories |-> <<R_groc>>, tags |-> <<T_shop>>]}
    /\ pending = <<OcrGuess(<<S_taxi>>, -1550)>>
    /\ tagsIn = <<>>
    /\ tagsOut = <<>>
    /\ report = NoReport
    /\ rulesFile = yaml_dump(rules)
    /\ sessions = <<>>
    /\ lastOp = [op |-> "init"]

NextLedger ==
    \/ IngestZipOf(ArchivesLedger)
    \/ QuickAddOf({"Expense", "Income"}, {1550}, {S_taxi})
    \/ BillConfirmOf({1550})
    \/ ConfirmPendingOf({-1550, 1550})
    \/ AddRecurringOf({-1000, 1000}, {<<S_sub>>})
    \/ ProcessRecurring
    \/ SetInitialBalanceOf({-50000, 50000})

SpecLedger == InitLedger /\ [][NextLedger]_vars

\* C19: in every state of the ledger, a row of type Expense has amount <= 0
\* and a row of type Income has amount >= 0.
C19_SignAgreesWithType ==
    \A i \in 1..Len(ledger) :
        /\ ledger[i].type = "Expense" => ledger[i].amount <= 0
        /\ ledger[i].type = "Income" => ledger[i].amount >= 0

\* C20: in every state of the ledger, the tags of a row are lowercase and no
\* tag occurs twice in a row.
C20_TagsLowercaseSet ==
    \A i \in 1..Len(ledger) :
        \A a \in 1..Len(ledger[i].tags) :
            /\ IsLower(ledger[i].tags[a])
            /\ \A b \in 1..Len(ledger[i].tags) :
                   ledger[i].tags[a] = ledger[i].tags[b] => a = b

-----------------------------------------------------------------------------
(* Specification SpecStore: two sessions, each with the RulesEngine of its  *)
(* DataManager, over one rules.yaml. A session is a record of rules, the    *)
(* document self.rules refers to; pc, where the session stands in           *)
(* save_rules; and two records of history: previous, the document before   *)
(* the edit that is being saved, and called_on, the file when save_rules   *)
(* was called                                                              *)

StoreSessions == {1, 2}

\* the rule documents' entries the settings page adds
StoreRules == {R_fuel}

\* the document both sessions loaded
LoadedDoc == [categories |-> <<R_groc>>, tags |-> <<>>]

\* a write of data at the start of a file opened with 'w' by this writer:
\* what another writer put behind the end of data stays
WriteAt(file, data) == data \o SubSeq(file, Len(data) + 1, Len(file))

\* the handler mutated current_rules, which is rules_engine.rules itself,
\* and calls save_rules
CallSaveRules(s, doc) ==
    [sessions EXCEPT ![s] = [rules |-> doc, previous |-> sessions[s].rules,
                             pc |-> "open", called_on |-> rulesFile]]

\* settings.py "Add Category"
AddCategory(s) ==
    /\ sessions[s].pc = "idle"
    /\ Len(sessions[s].rules.categories) < MaxStoreRules
    /\ \E new_rule \in StoreRules :
          sessions' = CallSaveRules(s, [sessions[s].rules EXCEPT
                                           !.categories = Append(@, new_rule)])
    /\ lastOp' = [op |-> "add_category", session |-> s]
    /\ UNCHANGED <<ledger, templates, today, created, projection, rules, pending,
                   tagsIn, tagsOut, report, rulesFile>>

\* settings.py "Delete Strategy"
DeleteCategory(s) ==
    /\ sessions[s].pc = "idle"
    /\ \E i \in 1..Len(sessions[s].rules.categories) :
          sessions' = CallSaveRules(s, [sessions[s].rules EXCEPT
                                           !.categories = SubSeq(@, 1, i - 1) \o
                                                          SubSeq(@, i + 1, Len(@))])
    /\ lastOp' = [op |-> "delete_category", session |-> s]
    /\ UNCHANGED <<ledger, templates, today, created, projection, rules, pending,
                   tagsIn, tagsOut, report, rulesFile>>

\* save_rules: open(self.rules_path, 'w') truncates the file, or raises and
\* leaves it
OpenRulesFile(s) ==
    /\ sessions[s].pc = "open"
    /\ \E opened \in BOOLEAN :
          /\ rulesFile' = IF opened THEN <<>> ELSE rulesFile
          /\ sessions' = [sessions EXCEPT ![s].pc = IF opened THEN "dump" ELSE "idle"]
          /\ lastOp' = IF opened THEN [op |-> "open", session |-> s]
                       ELSE [op |-> "save_rules", session |-> s, ok |-> FALSE]
    /\ UNCHANGED <<ledger, templates, today, created, projection, rules, pending,
                   tagsIn, tagsOut, report>>

\* save_rules: yaml.dump into the file and the end of the with block, which
\* writes what was dumped, all of it or, when the dump or the write raises,
\* the lines before the failure; then self.rules = new_rules
DumpRules(s) ==
    /\ sessions[s].pc = "dump"
    /\ \E n \in 0..Len(yaml_dump(sessions[s].rules)) :
          /\ rulesFile' = WriteAt(rulesFile, SubSeq(yaml_dump(sessions[s].rules), 1, n))
          /\ sessions' = [sessions EXCEPT ![s].pc = "idle"]
          /\ lastOp' = [op |-> "save_rules", session |-> s,
                        ok |-> n = Len(yaml_dump(sessions[s].rules))]
    /\ UNCHANGED <<ledger, templates, today, created, projection, rules, pending,
                   tagsIn, tagsOut, report>>

InitStore ==
    /\ ledger = <<>>
    /\ templates = <<>>
    /\ today = FirstDay
    /\ created = <<>>
    /\ projection = NoProjection
    /\ rules = NoRules
    /\ pending = <<>>
    /\ tagsIn = <<>>
    /\ tagsOut = <<>>
    /\ report = NoReport
    /\ rulesFile = yaml_dump(LoadedDoc)
    /\ sessions = [s \in StoreSessions |->
                      [rules |-> LoadedDoc, previous |-> LoadedDoc, pc |-> "idle",
                       called_on |-> yaml_dump(LoadedDoc)]]
    /\ lastOp = [op |-> "load_rules"]

NextStore ==
    \E s \in StoreSessions :
        \/ AddCategory(s)
        \/ DeleteCategory(s)
        \/ OpenRulesFile(s)
        \/ DumpRules(s)

SpecStore == InitStore /\ [][NextStore]_vars

\* C21: the file is at every moment the complete document some session had
\* before its edit or has after it, and after a save that failed the file is
\* the one save_rules was called on and the session's ruleset is the one
\* before the edit.
C21_SaveAtomic ==
    /\ \E s \in StoreSessions :
          \/ rulesFile = yaml_dump(sessions[s].rules)
          \/ rulesFile = yaml_dump(sessions[s].previous)
    /\ (lastOp.op = "save_rules" /\ ~lastOp.ok) =>
          /\ rulesFile = sessions[lastOp.session].called_on
          /\ sessions[lastOp.session].rules = sessions[lastOp.session].previous

\* C26: after a save of a session has completed, the file is the document
\* that session holds in memory, whatever the other session saved before.
C26_LastWriterWins ==
    (lastOp.op = "save_rules" /\ lastOp.ok) =>
        rulesFile = yaml_dump(sessions[lastOp.session].rules)

-----
(* Specification SpecImport: archives of several entries                   *)

RowA == RawRow("Expense", Text(S_1550), "Groceries", <<S_conad>>, TagsStr(S_hfood), <<>>)
RowB == RawRow("Income", Num(1550), "Salary", <<>>, TagsNaN, <<>>)

\* entries: two CSVs of one row, a CSV without rows, a CSV whose columns are
\* not the expected ones, an entry that is no CSV, and a re-export of the
\* first under its name with another row
FilesImport ==
    {File(S_acsv, Batch(<<RowA>>, FALSE)), File(S_bcsv, Batch(<<RowB>>, FALSE)),
     File(S_ecsv, Batch(<<>>, FALSE)), File(S_xcsv, MalformedBatch),
     File(S_ntxt, Batch(<<RowA>>, FALSE)), File(S_acsv, Batch(<<RowB>>, FALSE))}

ArchivesImport == SeqsUpTo(FilesImport, MaxFiles)

InitImport ==
    /\ ledger = <<>>
    /\ templates = <<>>
    /\ today = FirstDay
    /\ created = <<>>
    /\ projection = NoProjection
    /\ rules = NoRules
    /\ pending = <<>>
    /\ tagsIn = <<>>
    /\ tagsOut = <<>>
    /\ report = NoReport
    /\ rulesFile = yaml_dump(rules)
    /\ sessions = <<>>
    /\ lastOp = [op |-> "init"]

NextImport == IngestZipOf(ArchivesImport)

SpecImport == InitImport /\ [][NextImport]_vars

\* C6: an ingest_zip call inserts no row under a filename that was a
\* source_file of the ledger before the call and counts each such CSV entry as
\* skipped; a call that repeats the archive of the call before it inserts no
\* row at all.
C6_Dedup ==
    lastOp.op = "ingest_zip" =>
        /\ \A i \in (lastOp.base + 1)..Len(ledger) :
               ledger[i].source_file \notin lastOp.existing
        /\ lastOp.ok =>
               lastOp.skipped =
                   Cardinality({k \in 1..Len(lastOp.archive) :
                                   /\ EndsWith(lastOp.archive[k].name, S_dotcsv)
                                   /\ lastOp.archive[k].name \in lastOp.existing})
        /\ lastOp.again => Len(ledger) = lastOp.base

\* C6 witness: the archive of two CSVs with rows was imported twice in a row;
\* the second call skipped both and the ledger holds the rows of the first
C6_Witness ==
    /\ lastOp.op = "ingest_zip"
    /\ lastOp.again
    /\ lastOp.ok
    /\ lastOp.skipped = 2
    /\ lastOp.count = 0
    /\ Len(ledger) = 2
    /\ lastOp.archive[1].name # lastOp.archive[2].name

\* ingest_zip: entry k of the archive is read and _process_and_insert raises
RaisesAt(archive, existing, doc, k) ==
    /\ EndsWith(archive[k].name, S_dotcsv)
    /\ archive[k].name \notin existing
    /\ ~process_and_insert(<<>>, doc, archive[k].batch, archive[k].name).ok

\* ingest_zip: the entry that ends the loop of a failed call
FailedAt(archive, existing, doc) ==
    CHOOSE k \in 1..Len(archive) :
        /\ RaisesAt(archive, existing, doc, k)
        /\ \A j \in 1..(k - 1) : ~RaisesAt(archive, existing, doc, j)

\* the CSV entries before entry k that brought rows
CsvWithRowsBefore(archive, k) ==
    {j \in 1..(k - 1) : /\ EndsWith(archive[j].name, S_dotcsv)
                       /\ archive[j].batch.rows # <<>>}

C29_Step ==
    (lastOp'.op = "ingest_zip" /\ ~lastOp'.ok) =>
        \E k \in {FailedAt(lastOp'.archive, lastOp'.existing, rules)} :
        \E r \in {ingest_zip(ledger, rules, SubSeq(lastOp'.archive, 1, k - 1))} :
            /\ r.ok
            /\ ledger' = r.ledger
            /\ SubSeq(ledger', 1, Len(ledger)) = ledger
            /\ \A j \in CsvWithRowsBefore(lastOp'.archive, k) :
                   lastOp'.archive[j].name \in ExistingFiles(ledger')
            /\ (lastOp.op = "ingest_zip" /\ ~lastOp.ok
                    /\ lastOp.archive = lastOp'.archive) =>
                   /\ ledger' = ledger
                   /\ \A j \in CsvWithRowsBefore(lastOp'.archive, k) :
                          lastOp'.archive[j].name \in lastOp'.existing
                   /\ lastOp'.skipped =
                          Cardinality({j \in 1..(k - 1) :
                              /\ EndsWith(lastOp'.archive[j].name, S_dotcsv)
                              /\ lastOp'.archive[j].name \in lastOp'.existing})

\* C29: an ingest_zip call in which _process_and_insert raises on an entry
\* returns a failure result and leaves the ledger as the import of the
\* entries before that one leaves it: the rows from before the call and the
\* rows of the CSVs read before the failing one. A call that repeats the
\* archive after the failure skips each of those CSVs that brought rows, fails
\* on the same entry and inserts no row.
C29_FailedImportKeepsRows == [][C29_Step]_vars

\* C29 witness: the archive of a CSV with a row and a CSV that raises was
\* imported twice in a row; the second call skipped the first CSV, failed
\* again, and the ledger holds the one row of the first call
C29_Witness ==
    /\ lastOp.op = "ingest_zip"
    /\ ~lastOp.ok
    /\ lastOp.again
    /\ Len(lastOp.archive) = 2
    /\ lastOp.archive[2].batch.malformed
    /\ lastOp.archive[1].batch.rows # <<>>
    /\ lastOp.skipped = 1
    /\ lastOp.base = 1
    /\ Len(ledger) = 1
    /\ ledger[1].source_file = lastOp.archive[1].name

-----------------------------------------------------------------------------
(* Claims on the recurring engine, checked under SpecRecurring             *)

TemplateById(store, id) == store[CHOOSE i \in 1..Len(store) : store[i].id = id]

Alive(store, id) == \E i \in 1..Len(store) : store[i].id = id

\* number of ledger rows materialized from template id
Materialized(led, id) == Cardinality({i \in 1..Len(led) : led[i].tid = id})

\* C2: a template created with remaining_installments = n >= 1 and no end_date
\* has, while it is in the store, been materialized fewer than n times and its
\* stored counter is n minus the number of materializations; once it has left
\* the store it has been materialized exactly n times.
C2_InstallmentsCountdown ==
    \A k \in 1..Len(created) :
        LET c   == created[k]
            n   == c.remaining_installments
            cnt == Materialized(ledger, c.id)
        IN  (n # <<>> /\ n[1] >= 1 /\ c.end_date = <<>>) =>
                IF Alive(templates, c.id)
                THEN /\ cnt < n[1]
                     /\ TemplateById(templates, c.id).remaining_installments = <<n[1] - cnt>>
                ELSE cnt = n[1]

\* C2 witness: a template of two installments has left the store after its
\* second transaction, and a template of one installment after its first
C2_Witness ==
    /\ \E k \in 1..Len(created) :
          /\ created[k].remaining_installments = <<2>>
          /\ created[k].end_date = <<>>
          /\ ~Alive(templates, created[k].id)
          /\ Materialized(ledger, created[k].id) = 2
    /\ \E k \in 1..Len(created) :
          /\ created[k].remaining_installments = <<1>>
          /\ created[k].end_date = <<>>
          /\ ~Alive(templates, created[k].id)
          /\ Materialized(ledger, created[k].id) = 1

\* C3: in a process_recurring call, a due template that has an end_date leaves
\* the store in that call exactly when its next_date advanced by one period is
\* later than the end_date or its installment counter ran out; otherwise it
\* stays, with the advanced next_date.
C3_EndDateDeletion ==
    [][lastOp'.op = "process_recurring" =>
         \A i \in 1..Len(templates) :
             LET t      == templates[i]
                 nd     == AdvanceDate(t.frequency, t.next_date)
                 ranOut == t.remaining_installments # <<>>
                           /\ t.remaining_installments[1] - 1 <= 0
             IN  (t.next_date <= today /\ t.end_date # <<>>) =>
                     /\ ~Alive(templates', t.id) <=> (nd > t.end_date[1] \/ ranOut)
                     /\ Alive(templates', t.id) =>
                            TemplateById(templates', t.id).next_date = nd]_vars

\* C3 witness: process_recurring has run; one template with an end_date and no
\* counter was materialized and is gone, another was materialized and stays
C3_Witness ==
    /\ lastOp.op = "process_recurring"
    /\ \E k \in 1..Len(created) :
          /\ created[k].end_date # <<>>
          /\ created[k].remaining_installments = <<>>
          /\ Materialized(ledger, created[k].id) >= 1
          /\ ~Alive(templates, created[k].id)
    /\ \E k \in 1..Len(created) :
          /\ created[k].end_date # <<>>
          /\ Materialized(ledger, created[k].id) >= 1
          /\ Alive(templates, created[k].id)
          /\ TemplateById(templates, created[k].id).next_date <= created[k].end_date[1]

C5_OnePerCall ==
    [][lastOp'.op = "process_recurring" =>
         LET due == DueTemplates(templates, today)
         IN  /\ Len(ledger') = Len(ledger) + Len(due)
             /\ \A i \in 1..Len(due) :
                    /\ ledger'[Len(ledger) + i].tid = due[i].id
                    /\ ledger'[Len(ledger) + i].date = due[i].next_date
                    /\ (Alive(templates', due[i].id) /\ KnownFrequency(due[i].frequency)) =>
                           TemplateById(templates', due[i].id).next_date =
                               AdvanceDate(due[i].frequency, due[i].next_date)]_vars

\* C5 witness: after a call, a weekly template whose transaction was just
\* inserted is still due: it was overdue by more than one period
C5_Witness ==
    /\ lastOp.op = "process_recurring"
    /\ lastOp.count >= 1
    /\ \E i \in 1..Len(templates) :
          /\ templates[i].frequency = "Weekly"
          /\ templates[i].next_date <= today
          /\ ledger[Len(ledger)].tid = templates[i].id
          /\ AddDays(ledger[Len(ledger)].date, 7) = templates[i].next_date


\* the rows of the projection that come from template id, in their order
ProjectedOf(id) == SelectSeq(projection.rows, LAMBDA r : r.tid = id)

\* the dates d, d + 1 period, d + 2 periods, ... up to the horizon
RECURSIVE PeriodDates(_, _, _)
PeriodDates(frequency, d, until) ==
    IF d > until THEN <<>>
    ELSE <<d>> \o PeriodDates(frequency, AdvanceDate(frequency, d), until)

\* the occurrences a template is to give: its period dates up to the horizon,
\* those not after its end_date, and of these the first remaining_installments
ExpectedDates(t, until) ==
    LET all   == PeriodDates(t.frequency, t.next_date, until)
        inEnd == SelectSeq(all, LAMBDA d : t.end_date = <<>> \/ d <= t.end_date[1])
    IN  IF t.remaining_installments = <<>> THEN inEnd
        ELSE SubSeq(inEnd, 1, Min(Len(inEnd), t.remaining_installments[1]))

\* the store of the scenario: one template, Netflix, monthly from 2024-01-15, no limit
ScenarioStore ==
    add_recurring(<<>>, 1, S_Netflix, -1000, "Bills", "Cash", "Monthly",
                  MkDate(2024, 1, 15), <<S_Netflix>>, <<S_sub>>, <<>>, <<>>)

\* C12: a projection holds, for every template of frequency Weekly, Monthly
\* or Yearly, exactly the occurrences next_date, next_date advanced by one
\* period, by one more, ... that are not after the horizon, not after the
\* template's end_date, and at most remaining_installments many, each with the
\* template's amount; monthly from 2024-01-15 up to 2024-04-01 gives
\* 2024-01-15, 2024-02-15 and 2024-03-15.
C12_ProjectedOccurrences ==
    /\ projection # NoProjection =>
          \A i \in 1..Len(templates) :
              KnownFrequency(templates[i].frequency) =>
                  LET rows == ProjectedOf(templates[i].id)
                      want == ExpectedDates(templates[i], projection.until)
                  IN  /\ Len(rows) = Len(want)
                      /\ \A k \in 1..Len(rows) :
                             /\ rows[k].date = want[k]
                             /\ rows[k].amount = templates[i].amount
    /\ LET rows == get_projected_recurring(ScenarioStore, MkDate(2024, 4, 1)).rows
       IN  /\ [k \in 1..Len(rows) |-> rows[k].date] =
                  <<MkDate(2024, 1, 15), MkDate(2024, 2, 15), MkDate(2024, 3, 15)>>
           /\ \A k \in 1..Len(rows) : rows[k].amount = -1000

\* C12 witness: a monthly template from 2024-01-31 without limits is
\* projected up to a horizon that is the date of its second occurrence or
\* later, and the projection has 2024-01-31 and 2024-02-29 for it
C12_Witness ==
    /\ lastOp.op = "project"
    /\ \E i \in 1..Len(templates) :
          /\ templates[i].frequency = "Monthly"
          /\ templates[i].next_date = RecStartDate
          /\ templates[i].remaining_installments = <<>>
          /\ templates[i].end_date = <<>>
          /\ Len(ProjectedOf(templates[i].id)) = 2
          /\ ProjectedOf(templates[i].id)[2].date = MkDate(2024, 2, 29)

\* C13 as stated: a projection holds no occurrence of a template whose
\* frequency is not Weekly, Monthly or Yearly.
C13_NoOccurrenceForUnknown ==
    projection # NoProjection =>
        \A i \in 1..Len(templates) :
            ~KnownFrequency(templates[i].frequency) =>
                ProjectedOf(templates[i].id) = <<>>

\* C13 amended: the projection is computed (the loop ends) and holds, for a
\* template whose frequency is not Weekly, Monthly or Yearly, one occurrence,
\* dated next_date with the template's amount, when next_date is not after
\* the horizon nor after the end_date and remaining_installments is unset or
\* above zero, and no occurrence otherwise.
C13_OneOccurrenceForUnknown ==
    projection # NoProjection =>
        \A i \in 1..Len(templates) :
            ~KnownFrequency(templates[i].frequency) =>
                LET t    == templates[i]
                    rows == ProjectedOf(t.id)
                IN  IF /\ t.next_date <= projection.until
                       /\ (t.end_date = <<>> \/ t.next_date <= t.end_date[1])
                       /\ (t.remaining_installments = <<>> \/ t.remaining_installments[1] > 0)
                    THEN /\ Len(rows) = 1
                         /\ rows[1].date = t.next_date
                         /\ rows[1].amount = t.amount
                    ELSE rows = <<>>

\* C13 witness: a template of another frequency without limits, due within
\* the horizon, has one occurrence in the projection
C13_Witness ==
    /\ lastOp.op = "project"
    /\ \E i \in 1..Len(templates) :
          /\ templates[i].frequency = "Other"
          /\ templates[i].remaining_installments = <<>>
          /\ templates[i].end_date = <<>>
          /\ templates[i].next_date <= projection.until
          /\ Len(ProjectedOf(templates[i].id)) = 1

------------------------------------------------------------------------\* C23 as stated: in a process_recurring call, every due template that
\* stays in the store has a next_date later than the one it had.
C23_NextDateStrictlyLater ==
    [][lastOp'.op = "process_recurring" =>
         \A i \in 1..Len(templates) :
             (templates[i].next_date <= today /\ Alive(templates', templates[i].id)) =>
                 TemplateById(templates', templates[i].id).next_date
                     > templates[i].next_date]_vars

\* C23 amended: in a process_recurring call, a due template that stays in
\* the store has a later next_date when its frequency is Weekly, Monthly or
\* Yearly and the same next_date when it is any other; in no step does the
\* next_date of a template move backward.
C23_NextDateAdvances ==
    [][/\ \A i \in 1..Len(templates) :
             Alive(templates', templates[i].id) =>
                 TemplateById(templates', templates[i].id).next_date
                     >= templates[i].next_date
       /\ lastOp'.op = "process_recurring" =>
             \A i \in 1..Len(templates) :
                 (templates[i].next_date <= today /\ Alive(templates', templates[i].id)) =>
                     IF KnownFrequency(templates[i].frequency)
                     THEN TemplateById(templates', templates[i].id).next_date
                              > templates[i].next_date
                     ELSE TemplateById(templates', templates[i].id).next_date
                              = templates[i].next_date]_vars

\* C23 witness: after a call, a yearly template that was materialized is in
\* the store with a later next_date, and a template of another frequency
\* that was materialized is in the store with the next_date it was created with
C23_Witness ==
    /\ lastOp.op = "process_recurring"
    /\ \E k \in 1..Len(created) :
          /\ created[k].frequency = "Yearly"
          /\ Materialized(ledger, created[k].id) >= 1
          /\ Alive(templates, created[k].id)
          /\ TemplateById(templates, created[k].id).next_date > created[k].next_date
    /\ \E k \in 1..Len(created) :
          /\ created[k].frequency = "Other"
          /\ Materialized(ledger, created[k].id) >= 1
          /\ Alive(templates, created[k].id)
          /\ TemplateById(templates, created[k].id).next_date = created[k].next_date

\* C24 as stated: the rows of a projection are in non-decreasing date order.
C24_DateOrdered ==
    \A j \in 1..(Len(projection.rows) - 1) :
        projection.rows[j].date <= projection.rows[j + 1].date

\* C24 amended: the rows of a projection are ordered by template: the rows
\* of one template are together and in increasing date order, and the
\* templates follow each other in non-decreasing order of their next_date.
C24_OrderedByTemplate ==
    \A j, k \in 1..Len(projection.rows) :
        j < k =>
            IF projection.rows[j].tid = projection.rows[k].tid
            THEN /\ projection.rows[j].date < projection.rows[k].date
                 /\ \A l \in j..k : projection.rows[l].tid = projection.rows[j].tid
            ELSE TemplateById(templates, projection.rows[j].tid).next_date
                     <= TemplateById(templates, projection.rows[k].tid).next_date

\* C24 witness: a projection of two templates in which a row of the first
\* is dated after a row of the second that follows it, and the template
\* stored second comes first
C24_Witness ==
    /\ lastOp.op = "project"
    /\ \E j, k \in 1..Len(projection.rows) :
          /\ j < k
          /\ projection.rows[j].tid # projection.rows[k].tid
          /\ projection.rows[j].date > projection.rows[k].date
    /\ Len(templates) = 2
    /\ projection.rows[1].tid = templates[2].id
    /\ projection.rows[Len(projection.rows)].tid = templates[1].id

\* C25: no ledger row that came from a template is dated later than the
\* end_date the template was created with.
C25_NoRowAfterEndDate ==
    \A i \in 1..Len(ledger) :
        \A k \in 1..Len(created) :
            (ledger[i].tid = created[k].id /\ created[k].end_date # <<>>) =>
                ledger[i].date <= created[k].end_date[1]

\* the dates of a sequence of rows
DatesOf(rows) == [i \in 1..Len(rows) |-> rows[i].date]

\* C27: for a template of frequency Weekly, Monthly or Yearly that is not due
\* any more (it left the store, or its next_date is after today), the dates of
\* the ledger rows that came from it are the dates the projection of the
\* template as it was created lists up to today.
C27_ProcessMatchesProject ==
    \A k \in 1..Len(created) :
        (/\ KnownFrequency(created[k].frequency)
         /\ \/ ~Alive(templates, created[k].id)
            \/ TemplateById(templates, created[k].id).next_date > today) =>
            DatesOf(SelectSeq(ledger, LAMBDA r : r.tid = created[k].id)) =
                DatesOf(ProjectRule(created[k], created[k].next_date,
                                    created[k].remaining_installments, today))

\* C28: a process_recurring call leaves every template whose next_date is
\* after today as it is and in the store, leaves the ledger rows there were
\* as they are, and adds as many rows as it returns, which is the number of
\* templates that were due when it was called.
C28_ProcessFrame ==
    [][lastOp'.op = "process_recurring" =>
         /\ \A i \in 1..Len(templates) :
               templates[i].next_date > today =>
                   /\ Alive(templates', templates[i].id)
                   /\ TemplateById(templates', templates[i].id) = templates[i]
         /\ SubSeq(ledger', 1, Len(ledger)) = ledger
         /\ Len(ledger') = Len(ledger) + lastOp'.count
         /\ lastOp'.count =
                Cardinality({i \in 1..Len(templates) : templates[i].next_date <= today})]_vars

\* C28 witness: after a call that returned 1, the ledger has the row of the
\* call behind an earlier one, and the store holds a monthly template that
\* was not due: it has the next_date an earlier call gave it and its only
\* row is from that call
C28_Witness ==
    /\ lastOp.op = "process_recurring"
    /\ lastOp.count = 1
    /\ Len(ledger) >= 2
    /\ \E k \in 1..Len(created) :
          /\ created[k].frequency = "Monthly"
          /\ Alive(templates, created[k].id)
          /\ TemplateById(templates, created[k].id).next_date
                 = AddMonths(created[k].next_date, 1)
          /\ TemplateById(templates, created[k].id).next_date > today
          /\ Materialized(ledger, created[k].id) = 1
          /\ ledger[Len(ledger)].tid # created[k].id

-----
(* ui/split.py: the split configuration and the monthly report             *)

S_loan     == <<"l","o","a","n">>
S_split    == <<"s","p","l","i","t">>
S_prestito == <<"p","r","e","s","t","i","t","o">>
S_anticipo == <<"a","n","t","i","c","i","p","o">>

\* render_split: the values filled in for the keys split_config lacks
DefaultSplitConfig ==
    [default_share_pct |-> 50, rules |-> <<>>,
     loan_tags |-> <<S_prestito, S_loan, S_anticipo>>]

SplitConf(doc) ==
    IF "split_config" \in DOMAIN doc THEN doc.split_config ELSE DefaultSplitConfig

\* [t.strip() for t in text.split(',') if t.strip()]
StripNonEmpty(parts) ==
    SelectSeq([i \in 1..Len(parts) |-> Strip(parts[i])], LAMBDA t : t # <<>>)

\* "Save General"
SaveGeneralConf(conf, new_def_pct, new_loan_tags) ==
    [conf EXCEPT !.default_share_pct = new_def_pct,
                 !.loan_tags = StripNonEmpty(SplitOn(new_loan_tags, ","))]

\* "Add Rule": the match of a tag rule is stripped and lowercased; an empty
\* match and a rule of the same type and match are refused
RuleExists(rules_list, type, match) ==
    \E i \in 1..Len(rules_list) :
        rules_list[i].type = type /\ rules_list[i].match = match

AddSplitRuleConf(conf, type, match, my_share) ==
    IF RuleExists(conf.rules, type, match) THEN conf
    ELSE [conf EXCEPT !.rules = Append(@, [type |-> type, match |-> match,
                                           my_share |-> my_share])]

\* the bin button of rule i
DeleteSplitRuleConf(conf, i) ==
    [conf EXCEPT !.rules = SubSeq(@, 1, i - 1) \o SubSeq(@, i + 1, Len(@))]

\* t.lower().replace('#', '').strip()
CleanTag(t) == Strip(RemoveChar(Lower(t), "#"))

\* the tags of a ledger row (a list), cleaned
RowTags(row) == [i \in 1..Len(row.tags) |-> CleanTag(row.tags[i])]

\* any(t in tags for t in clean_loan_tags)
IsLoan(tags, loan_tags) ==
    \E i \in 1..Len(loan_tags) : CleanTag(loan_tags[i]) \in Range(tags)

TagRuleMatch(r, tags) == r.type = "tag" /\ CleanTag(r.match) \in Range(tags)

CatRuleMatch(r, category) == r.type = "category" /\ r.match = category

\* the first rule of the list that matches as a tag rule, 0 when none
FirstTagRule(rules_list, tags) ==
    LET m == {i \in 1..Len(rules_list) : TagRuleMatch(rules_list[i], tags)}
    IN  IF m = {} THEN 0 ELSE CHOOSE i \in m : \A j \in m : i <= j

\* the first rule of the list that matches as a category rule, 0 when none
FirstCatRule(rules_list, category) ==
    LET m == {i \in 1..Len(rules_list) : CatRuleMatch(rules_list[i], category)}
    IN  IF m = {} THEN 0 ELSE CHOOSE i \in m : \A j \in m : i <= j

\* variant: the first rule of the list that matches, of either type
ActiveRuleListOrder(rules_list, tags, category) ==
    LET m == {i \in 1..Len(rules_list) :
                 \/ TagRuleMatch(rules_list[i], tags)
                 \/ CatRuleMatch(rules_list[i], category)}
    IN  IF m = {} THEN 0 ELSE CHOOSE i \in m : \A j \in m : i <= j

\* active_rule = tag_rule if tag_rule else cat_rule; the category rules are
\* searched only when no tag rule matched
ActiveRule(rules_list, tags, category) ==
    IF FirstTagRule(rules_list, tags) # 0 THEN FirstTagRule(rules_list, tags)
    ELSE FirstCatRule(rules_list, category)

\* the shares for which 1.0 - my_share / 100.0, times 100, is a double just
\* below the integer, so that int() gives one less
TruncatedShares == {34, 55, 56, 67, 68, 78, 79, 80, 81, 89, 90, 91, 92, 93}

\* int(partner_share * 100) of the share description
PartnerPct(my_share) ==
    IF my_share \in TruncatedShares THEN 99 - my_share ELSE 100 - my_share

DefaultSplitTags == {S_split, <<"c","o","n","d","i","v","i","s","o">>,
                     <<"s","h","a","r","e","d">>, <<"c","o","m","u","n","e">>}

\* a loan row: the whole amount is owed. Amounts are cents, owed amounts and
\* the total are hundredths of a cent
LoanRow(acc, idx, amount) ==
    [acc EXCEPT !.loan = Append(@, idx), !.total = @ + 100 * amount]

\* a row split by rule k of the list: recorded when the partner's share is
\* above zero. The share description is the pair of pct and by, by being the
\* position of the rule whose match it prints, 0 for "Default"
RuleRow(acc, idx, amount, rules_list, k) ==
    IF 100 - rules_list[k].my_share > 0
    THEN [acc EXCEPT !.total = @ + amount * (100 - rules_list[k].my_share),
                     !.split = Append(@, [idx |-> idx,
                                          owed |-> amount * (100 - rules_list[k].my_share),
                                          pct |-> PartnerPct(rules_list[k].my_share),
                                          by |-> k])]
    ELSE acc

\* variant: a row no rule matches is split by the default share whatever its
\* tags
DefaultRowUntagged(acc, idx, amount, tags, default_share_pct) ==
    [acc EXCEPT !.total = @ + amount * (100 - default_share_pct),
                !.split = Append(@, [idx |-> idx,
                                     owed |-> amount * (100 - default_share_pct),
                                     pct |-> PartnerPct(default_share_pct),
                                     by |-> 0])]

\* a row no rule matches: split by the default share when it has a default tag
DefaultRow(acc, idx, amount, tags, default_share_pct) ==
    IF \E k \in DefaultSplitTags : k \in Range(tags)
    THEN [acc EXCEPT !.total = @ + amount * (100 - default_share_pct),
                     !.split = Append(@, [idx |-> idx,
                                          owed |-> amount * (100 - default_share_pct),
                                          pct |-> PartnerPct(default_share_pct),
                                          by |-> 0])]
    ELSE acc

\* "2. Check Split Rules" for a row, k the active rule or 0
ShareRow(acc, idx, amount, tags, conf, k) ==
    IF k # 0 THEN RuleRow(acc, idx, amount, conf.rules, k)
    ELSE DefaultRow(acc, idx, amount, tags, conf.default_share_pct)

\* variant: a loan row goes on to the split rules
SplitRowNoContinue(acc, idx, row, conf) ==
    IF IsLoan(RowTags(row), conf.loan_tags)
    THEN ShareRow(LoanRow(acc, idx, Abs(row.amount)), idx, Abs(row.amount),
                  RowTags(row), conf,
                  ActiveRule(conf.rules, RowTags(row), row.category))
    ELSE ShareRow(acc, idx, Abs(row.amount), RowTags(row), conf,
                  ActiveRule(conf.rules, RowTags(row), row.category))

\* one turn of the loop over the month's expenses
SplitRow(acc, idx, row, conf) ==
    IF IsLoan(RowTags(row), conf.loan_tags)
    THEN LoanRow(acc, idx, Abs(row.amount))
    ELSE ShareRow(acc, idx, Abs(row.amount), RowTags(row), conf,
                  ActiveRule(conf.rules, RowTags(row), row.category))

\* the mask of the report: the expenses of the selected month
InMonth(row, sel_year, sel_month) ==
    Y(row.date) = sel_year /\ M(row.date) = sel_month /\ row.type = "Expense"

RECURSIVE SplitRows(_, _, _, _, _, _)
SplitRows(acc, led, idx, conf, sel_year, sel_month) ==
    IF idx > Len(led) THEN acc
    ELSE SplitRows(IF InMonth(led[idx], sel_year, sel_month)
                   THEN SplitRow(acc, idx, led[idx], conf) ELSE acc,
                   led, idx + 1, conf, sel_year, sel_month)

\* the report tab: total owed, shared expenses, direct loans
split_report(led, conf, sel_year, sel_month) ==
    SplitRows(NoReport, led, 1, conf, sel_year, sel_month)

-----------------------------------------------------------------------------
(* Specification SpecSplit: the split page over ledgers of tagged rows.     *)
(* A change of the configuration reruns the page: the report shown before  *)
(* it is gone until the report is rendered again                           *)

SplitRowOf(type, amount, category, tags, date) ==
    [date |-> date, amount |-> amount, currency |-> "EUR", account |-> "Cash",
     category |-> category, tags |-> tags, description |-> <<>>, type |-> type,
     source_file |-> S_manual, original_description |-> <<>>,
     necessity |-> "Want", tid |-> 0]

SplitRowKinds ==
    {SplitRowOf("Expense", -1000, "Fuel", <<S_gas>>, MkDate(2024, 1, 5)),
     SplitRowOf("Expense", -1000, "Fuel", <<<<"#","L","o","a","n">>, S_gas>>, MkDate(2024, 1, 5)),
     SplitRowOf("Expense", -1550, "Misc", <<<<"S","p","l","i","t">>>>, MkDate(2024, 1, 9)),
     SplitRowOf("Expense", -1550, "Misc", <<S_split, S_loan>>, MkDate(2024, 1, 9)),
     SplitRowOf("Expense", -1000, "Fuel", <<>>, MkDate(2024, 1, 5)),
     SplitRowOf("Income", 1000, "Fuel", <<S_gas>>, MkDate(2024, 1, 5)),
     SplitRowOf("Expense", -1000, "Fuel", <<S_gas>>, MkDate(2024, 2, 5))}

InitSplit ==
    /\ ledger \in SeqsUpTo(SplitRowKinds, MaxSplitRows)
    /\ templates = <<>>
    /\ today = FirstDay
    /\ created = <<>>
    /\ projection = NoProjection
    /\ rules = NoRules
    /\ pending = <<>>
    /\ tagsIn = <<>>
    /\ tagsOut = <<>>
    /\ report = NoReport
    /\ rulesFile = yaml_dump(rules)
    /\ sessions = <<>>
    /\ lastOp = [op |-> "init"]

WithSplitConfig(doc, conf) ==
    [categories |-> doc.categories, tags |-> doc.tags, split_config |-> conf]

\* "Save General"
SaveGeneral ==
    \E new_def_pct \in {50, 100},
       new_loan_tags \in {S_loan, <<" ","#","G","a","s",",",",">>} :
        /\ rules' = WithSplitConfig(rules,
                        SaveGeneralConf(SplitConf(rules), new_def_pct, new_loan_tags))
        /\ rulesFile' = yaml_dump(rules')
        /\ lastOp' = [op |-> "save_general"]
        /\ report' = NoReport
        /\ UNCHANGED <<sessions, ledger, templates, today, created, projection, pending,
                       tagsIn, tagsOut>>

\* "Add Rule" with a tag
AddTagSplitRule ==
    \E r_match_input \in {<<" ","G","a","s">>, S_split, <<" ">>}, r_share \in {30, 100} :
        /\ Len(SplitConf(rules).rules) < MaxSplitRules
        /\ Strip(Lower(r_match_input)) # <<>>
        /\ rules' = WithSplitConfig(rules,
                        AddSplitRuleConf(SplitConf(rules), "tag",
                                         Lower(Strip(r_match_input)), r_share))
        /\ rulesFile' = yaml_dump(rules')
        /\ lastOp' = [op |-> "add_split_rule"]
        /\ report' = NoReport
        /\ UNCHANGED <<sessions, ledger, templates, today, created, projection, pending,
                       tagsIn, tagsOut>>

\* "Add Rule" with one of the categories of the ledger
AddCategorySplitRule ==
    \E i \in 1..Len(ledger), r_share \in {30, 100} :
        /\ Len(SplitConf(rules).rules) < MaxSplitRules
        /\ rules' = WithSplitConfig(rules,
                        AddSplitRuleConf(SplitConf(rules), "category",
                                         ledger[i].category, r_share))
        /\ rulesFile' = yaml_dump(rules')
        /\ lastOp' = [op |-> "add_split_rule"]
        /\ report' = NoReport
        /\ UNCHANGED <<sessions, ledger, templates, today, created, projection, pending,
                       tagsIn, tagsOut>>

\* the bin button of a rule
DeleteSplitRule ==
    \E i \in 1..Len(SplitConf(rules).rules) :
        /\ rules' = WithSplitConfig(rules, DeleteSplitRuleConf(SplitConf(rules), i))
        /\ rulesFile' = yaml_dump(rules')
        /\ lastOp' = [op |-> "delete_split_rule"]
        /\ report' = NoReport
        /\ UNCHANGED <<sessions, ledger, templates, today, created, projection, pending,
                       tagsIn, tagsOut>>

\* the report tab for January 2024
RenderReport ==
    /\ ledger # <<>>
    /\ report' = split_report(ledger, SplitConf(rules), 2024, 1)
    /\ lastOp' = [op |-> "split_report", year |-> 2024, month |-> 1]
    /\ UNCHANGED <<rulesFile, sessions, ledger, templates, today, created, projection, rules, pending,
                   tagsIn, tagsOut>>

NextSplit ==
    \/ SaveGeneral
    \/ AddTagSplitRule
    \/ AddCategorySplitRule
    \/ DeleteSplitRule
    \/ RenderReport

SpecSplit == InitSplit /\ [][NextSplit]_vars

\* the rows of the report just rendered
ReportRows ==
    IF lastOp.op = "split_report"
    THEN {i \in 1..Len(ledger) : InMonth(ledger[i], lastOp.year, lastOp.month)}
    ELSE {}

\* a tag of the row equals a configured loan tag, both lowercase without '#'
HasLoanTag(i) ==
    \E a \in 1..Len(ledger[i].tags), b \in 1..Len(SplitConf(rules).loan_tags) :
        CleanTag(ledger[i].tags[a]) = CleanTag(SplitConf(rules).loan_tags[b])

SplitEntries(i) == {e \in 1..Len(report.split) : report.split[e].idx = i}

RECURSIVE SumOwed(_)
SumOwed(entries) ==
    IF entries = <<>> THEN 0 ELSE Head(entries).owed + SumOwed(Tail(entries))

RECURSIVE SumLoans(_)
SumLoans(idxs) ==
    IF idxs = <<>> THEN 0 ELSE 100 * Abs(ledger[Head(idxs)].amount) + SumLoans(Tail(idxs))

\* C7: in the report, every row of the month with a configured loan tag is in
\* the loan group, once, and not in the shared group, the loan group holds
\* no other row, and the total owed is the sum of abs(amount) over the loan
\* group plus the owed amounts of the shared group.
C7_LoanOwedInFull ==
    lastOp.op = "split_report" =>
        /\ \A i \in ReportRows :
              HasLoanTag(i) =>
                  /\ Cardinality({k \in 1..Len(report.loan) : report.loan[k] = i}) = 1
                  /\ SplitEntries(i) = {}
        /\ \A k \in 1..Len(report.loan) :
              report.loan[k] \in ReportRows /\ HasLoanTag(report.loan[k])
        /\ report.total = SumLoans(report.loan) + SumOwed(report.split)

\* C7 witness: a loan row that a split rule with a partner share also matches
\* is in the loan group alone
C7_Witness ==
    /\ lastOp.op = "split_report"
    /\ \E i \in ReportRows :
          /\ HasLoanTag(i)
          /\ \E k \in 1..Len(SplitConf(rules).rules) :
                /\ SplitConf(rules).rules[k].my_share < 100
                /\ \/ TagRuleMatch(SplitConf(rules).rules[k], RowTags(ledger[i]))
                   \/ CatRuleMatch(SplitConf(rules).rules[k], ledger[i].category)
          /\ report.loan = <<i>>
          /\ report.split = <<>>
          /\ report.total = 100 * Abs(ledger[i].amount)

\* the tag rules, by position, that match row i; the category rules likewise
MatchingTagRules(i) ==
    {k \in 1..Len(SplitConf(rules).rules) :
        TagRuleMatch(SplitConf(rules).rules[k], RowTags(ledger[i]))}

MatchingCatSplitRules(i) ==
    {k \in 1..Len(SplitConf(rules).rules) :
        CatRuleMatch(SplitConf(rules).rules[k], ledger[i].category)}

\* C8: in the report, a non-loan row that a tag rule and a category rule
\* both match is split by the share of a tag rule that matches it: it owes
\* abs(amount) * (100 - my_share) / 100 of that rule, and is in the shared
\* group once when that is above zero and not at all otherwise.
C8_TagRuleBeatsCategoryRule ==
    \A i \in ReportRows :
        (~HasLoanTag(i) /\ MatchingTagRules(i) # {} /\ MatchingCatSplitRules(i) # {}) =>
            \E k \in MatchingTagRules(i) :
                LET my_share == SplitConf(rules).rules[k].my_share
                IN  IF my_share < 100
                    THEN /\ Cardinality(SplitEntries(i)) = 1
                         /\ \A e \in SplitEntries(i) :
                               report.split[e].owed = Abs(ledger[i].amount) * (100 - my_share)
                    ELSE SplitEntries(i) = {}

\* C8 witness: the category rule stands before the tag rule in the list, the
\* two have different shares, and the row owes by the tag rule's
C8_Witness ==
    \E i \in ReportRows :
        /\ ~HasLoanTag(i)
        /\ \E t \in MatchingTagRules(i), c \in MatchingCatSplitRules(i) :
              /\ c < t
              /\ SplitConf(rules).rules[c].my_share = 100
              /\ SplitConf(rules).rules[t].my_share = 30
              /\ \E e \in SplitEntries(i) :
                    report.split[e].owed = Abs(ledger[i].amount) * 70

------------------------------------------------------------------------\* a tag of row i, lowercase without '#', is one of the generic shared tags
HasDefaultTag(i) ==
    \E a \in 1..Len(ledger[i].tags) : CleanTag(ledger[i].tags[a]) \in DefaultSplitTags

\* the shares my_share that can apply to row i: of the tag rules that match
\* it, else of the category rules that match it, else the default share when
\* it has a generic shared tag
AppliedShares(i) ==
    IF MatchingTagRules(i) # {}
    THEN {SplitConf(rules).rules[k].my_share : k \in MatchingTagRules(i)}
    ELSE IF MatchingCatSplitRules(i) # {}
    THEN {SplitConf(rules).rules[k].my_share : k \in MatchingCatSplitRules(i)}
    ELSE IF HasDefaultTag(i) THEN {SplitConf(rules).default_share_pct}
    ELSE {}

\* the scenario: tag rule {match gas, my_share 50}, one row tagged gas of
\* amount -100
GasScenarioConf ==
    [DefaultSplitConfig EXCEPT
        !.rules = <<[type |-> "tag", match |-> S_gas, my_share |-> 50]>>]

GasScenarioReport ==
    split_report(<<SplitRowOf("Expense", -10000, "Fuel", <<S_gas>>, MkDate(2024, 1, 5))>>,
                 GasScenarioConf, 2024, 1)

\* C15: in the report, a non-loan row that a split rule or a generic shared
\* tag matches is in the shared group once, owing abs(amount) *
\* (100 - my_share) / 100, and the total is the sum of the loans and of the
\* owed amounts; the row tagged gas of amount -100 under the tag rule
\* {gas, 50} owes 50 and its share description shows 50%.
C15_OwedByShare ==
    /\ GasScenarioReport.split = <<[idx |-> 1, owed |-> 500000, pct |-> 50, by |-> 1]>>
    /\ GasScenarioReport.total = 500000
    /\ lastOp.op = "split_report" =>
          /\ \A i \in ReportRows :
                (~HasLoanTag(i) /\ AppliedShares(i) # {}) =>
                    \E my_share \in AppliedShares(i) :
                        /\ Cardinality(SplitEntries(i)) = 1
                        /\ \A e \in SplitEntries(i) :
                              report.split[e].owed = Abs(ledger[i].amount) * (100 - my_share)
          /\ report.total = SumLoans(report.loan) + SumOwed(report.split)

\* C16: in the report, a non-loan row whose applied share my_share is 100
\* is in the shared group once, owing 0.
C16_ZeroShareRecorded ==
    lastOp.op = "split_report" =>
        \A i \in ReportRows :
            (~HasLoanTag(i) /\ AppliedShares(i) = {100}) =>
                /\ Cardinality(SplitEntries(i)) = 1
                /\ \A e \in SplitEntries(i) : report.split[e].owed = 0

\* C17: in the report, a non-loan row that no tag rule and no category rule
\* matches is in the shared group, once, owing by default_share_pct, when it
\* has a generic shared tag, and otherwise is in neither group; the total is
\* the sum of the loans and of the owed amounts of the two groups.
C17_DefaultSplitIffMarker ==
    lastOp.op = "split_report" =>
        /\ \A i \in ReportRows :
              (~HasLoanTag(i) /\ MatchingTagRules(i) = {} /\ MatchingCatSplitRules(i) = {}) =>
                  IF HasDefaultTag(i)
                  THEN /\ Cardinality(SplitEntries(i)) = 1
                       /\ \A e \in SplitEntries(i) :
                             /\ report.split[e].owed =
                                    Abs(ledger[i].amount) * (100 - SplitConf(rules).default_share_pct)
                             /\ report.split[e].by = 0
                  ELSE /\ SplitEntries(i) = {}
                       /\ \A k \in 1..Len(report.loan) : report.loan[k] # i
        /\ report.total = SumLoans(report.loan) + SumOwed(report.split)

\* C17 witness: of two rows no rule matches, the one tagged Split owes half
\* of its amount by the default share and the one without tags is in no group
C17_Witness ==
    /\ lastOp.op = "split_report"
    /\ SplitConf(rules).default_share_pct = 50
    /\ \E i, j \in ReportRows :
          /\ ~HasLoanTag(i) /\ MatchingTagRules(i) = {} /\ MatchingCatSplitRules(i) = {}
          /\ HasDefaultTag(i)
          /\ \E e \in SplitEntries(i) :
                report.split[e].owed = Abs(ledger[i].amount) * 50
          /\ ledger[j].tags = <<>>
          /\ MatchingCatSplitRules(j) = {}
          /\ SplitEntries(j) = {}
          /\ report.loan = <<>>
          /\ report.total = Abs(ledger[i].amount) * 50

-----
(* Specification SpecTags: normalize_tags on lists of strings over a small *)
(* alphabet and of elements that are no strings, and on its own results    *)

TagAlphabet == {"a", "B", "b", "#", ",", " "}

TagElements == {StrEl(x) : x \in SeqsUpTo(TagAlphabet, MaxTagLen)} \cup {NonStr}

\* a list of strings as an argument of normalize_tags
AsTagsList(tags) == [i \in 1..Len(tags) |-> StrEl(tags[i])]

InitTags ==
    /\ ledger = <<>>
    /\ templates = <<>>
    /\ today = FirstDay
    /\ created = <<>>
    /\ projection = NoProjection
    /\ rules = NoRules
    /\ pending = <<>>
    /\ tagsIn \in SeqsUpTo(TagElements, MaxTagList)
    /\ tagsOut = <<>>
    /\ report = NoReport
    /\ rulesFile = yaml_dump(rules)
    /\ sessions = <<>>
    /\ lastOp = [op |-> "init"]

\* normalize_tags(tagsIn)
NormalizeTags ==
    /\ lastOp.op = "init"
    /\ tagsOut' = normalize_tags(tagsIn)
    /\ lastOp' = [op |-> "normalize_tags"]
    /\ UNCHANGED <<rulesFile, sessions, ledger, templates, today, created, projection, rules, pending,
                   tagsIn, report>>

\* normalize_tags on the list the call before returned
NormalizeAgain ==
    /\ lastOp.op = "normalize_tags"
    /\ tagsIn' = AsTagsList(tagsOut)
    /\ tagsOut' = normalize_tags(AsTagsList(tagsOut))
    /\ lastOp' = [op |-> "normalize_again"]
    /\ UNCHANGED <<rulesFile, sessions, ledger, templates, today, created, projection, rules, pending,
                   report>>

NextTags ==
    \/ NormalizeTags
    \/ NormalizeAgain

SpecTags == InitTags /\ [][NextTags]_vars

\* C9: the list normalize_tags returns is a fixed point of normalize_tags,
\* in ascending order, without a repeated tag, and each tag is lowercase and
\* has no '#'; a second call on the result returns it unchanged.
C9_NormalizeIdempotent ==
    /\ lastOp.op \in {"normalize_tags", "normalize_again"} =>
          /\ normalize_tags(AsTagsList(tagsOut)) = tagsOut
          /\ \A i \in 1..(Len(tagsOut) - 1) : ~StrLess(tagsOut[i + 1], tagsOut[i])
          /\ \A i, j \in 1..Len(tagsOut) : i # j => tagsOut[i] # tagsOut[j]
          /\ \A i \in 1..Len(tagsOut) :
                 /\ IsLower(tagsOut[i])
                 /\ "#" \notin Range(tagsOut[i])
    /\ lastOp.op = "normalize_again" => AsTagsList(tagsOut) = tagsIn

\* C9 witness: "#B" and "b a" normalize to the two tags a and b
C9_Witness ==
    /\ lastOp.op = "normalize_tags"
    /\ Len(tagsIn) = 2
    /\ tagsIn[1] = StrEl(<<"#", "B">>)
    /\ tagsIn[2] = StrEl(<<"b", " ", "a">>)
    /\ tagsOut = << <<"a">>, <<"b">> >>

====
